---- MODULE Spec2Model ----
(***************************************************************************)
(* Verification model of the BeybladeX-Database ingestion pipeline.        *)
(*                                                                         *)
(*   Part 1  database_lock / refresh_all.main : the write lock protocol    *)
(*   Part 2  normalize_data                   : the batch normalization    *)
(*   Part 3  insert_tournament / scrape / import_championships /           *)
(*           clear_source_data                : the ingestion operations   *)
(*   Part 4  parse_combo / normalize_blade / parse_cx_blade /              *)
(*           validate_and_fix_blade           : the parsing of part names  *)
(*                                                                         *)
(* Each part has its own specification over the shared variables; the      *)
(* variables of the other parts stay at their initial value.               *)
(***************************************************************************)
EXTENDS Integers, Sequences, FiniteSets, TLC

VARIABLES
    \* ---- Part 1: one entry per refresh_all process ----
    pc,            \* position of each refresh_all process in main()
    lock_fd,       \* state of the process's lock_fd descriptor
    flock_held,    \* processes whose open file description holds LOCK_EX
    conn,          \* state of main()'s local variable conn
    exc,           \* exception in flight in the process ("none" if none)
    outcome,       \* how main() ended
    stats,         \* whether the process runs refresh_all --stats
    lock_file,     \* whether the file LOCK_PATH exists
    probe_pc,      \* position of the API server in is_database_locked()
    probe_result,  \* value returned by the latest is_database_locked()
    \* ---- Parts 2 and 3: the persistent store ----
    tournaments,   \* rows of table tournaments
    placements,    \* rows of table placements
    \* ---- Part 2: successive normalize_data runs ----
    placements_before, \* table placements before the first normalize_data
    norm_runs,     \* number of normalize_data runs made so far
    fixed_count,   \* value returned by the latest normalize_data
    \* ---- Part 3: ingestion calls on the store ----
    seq_tournaments, \* next value of sequence seq_tournaments
    seq_placements,  \* next value of sequence seq_placements
    seq_burn,      \* 1 if a refused INSERT consumes a sequence value, else 0
    now,           \* the day datetime.now() reads
    pages_data,    \* content of data/wbo_pages.json
    last_call,     \* the latest ingestion call and its argument
    result,        \* value returned by the latest ingestion call
    raised,        \* exception raised by the latest call ("none" if none)
    scraped,       \* a scrape has run and nothing was cleared since
    calls,         \* number of ingestion calls made so far
    \* ---- Part 4: calls of the parsing functions ----
    set_order,     \* iteration order of the set CANONICAL_BLADES in this build
    raw_text,      \* the string a parsing function is called on
    applied,       \* the parsing function called last ("none" if none)
    returned,      \* the value it returned
    \* ---- Part 5: one API server ----
    server,        \* which of the two API servers runs
    scrape_status, \* the dict scrape_status
    handler_pc,    \* position of the request handler in run_scrape
    request,       \* the request being handled, or handled last
    started_message, \* the pair run_scrape returned last
    response,      \* the JSON sent last
    thread_pc,     \* position of each scrape thread in _scrape
    thread_sources,  \* the sources each scrape thread was started with
    thread_outcome   \* how each thread's subprocess.run or copy ended

vars_lock == <<pc, lock_fd, flock_held, conn, exc, outcome, stats,
              lock_file, probe_pc, probe_result>>

vars_store == <<tournaments, placements>>

vars_norm == <<placements_before, norm_runs, fixed_count>>

vars_ingest == <<seq_tournaments, seq_placements, seq_burn, now, pages_data,
                 last_call, result, raised, scraped, calls>>

vars_parse == <<set_order, raw_text, applied, returned>>

vars_api == <<server, scrape_status, handler_pc, request, started_message,
              response, thread_pc, thread_sources, thread_outcome>>

vars == <<pc, lock_fd, flock_held, conn, exc, outcome, stats,
          lock_file, probe_pc, probe_result,
          tournaments, placements, placements_before, norm_runs, fixed_count,
          seq_tournaments, seq_placements, seq_burn, now, pages_data,
          last_call, result, raised, scraped, calls,
          set_order, raw_text, applied, returned,
          server, scrape_status, handler_pc, request, started_message,
          response, thread_pc, thread_sources, thread_outcome>>

(***************************************************************************)
(* Part 1.  db.database_lock and refresh_all.main                          *)
(***************************************************************************)

\* Number of refresh_all processes that may be started concurrently
\* (cron job, API-triggered scrapes).
NumRuns == 3

Runs == 1..NumRuns

\* A shared lock (LOCK_SH | LOCK_NB) never conflicts with the shared lock of
\* another process: the acquire that an exclusive lock would refuse succeeds.
flock_sh_nb(r) == TRUE

\* fcntl.flock(lock_fd, LOCK_EX | LOCK_NB): succeeds iff no other open file
\* description holds the lock.
flock_ex_nb(r) == flock_held \subseteq {r}

\* database_lock(), line 45-46: os.open(LOCK_PATH, O_CREAT | O_RDWR).
\* main() reaches it only in a write mode (line 273-276).
database_lock_open(r) ==
    /\ pc[r] = "idle"
    /\ pc' = [pc EXCEPT ![r] = "flock"]
    /\ lock_fd' = [lock_fd EXCEPT ![r] = "open"]
    /\ UNCHANGED <<flock_held, conn, exc, outcome>>
    /\ UNCHANGED stats
    /\ lock_file' = TRUE

\* database_lock(), line 48-59: the non-blocking acquire.  On success the
\* generator yields and lock_context.__enter__() returns.  On failure the
\* handler closes lock_fd and raises DatabaseLockError, which then passes
\* through the finally block of line 61-67.
database_lock_flock(r) ==
    /\ pc[r] = "flock"
    /\ IF flock_ex_nb(r)
         THEN /\ flock_held' = flock_held \cup {r}
              /\ pc' = [pc EXCEPT ![r] = "entered"]
              /\ UNCHANGED <<lock_fd, exc>>
         ELSE /\ lock_fd' = [lock_fd EXCEPT ![r] = "closed"]
              /\ exc' = [exc EXCEPT ![r] = "DatabaseLockError"]
              /\ pc' = [pc EXCEPT ![r] = "enter_finally"]
              /\ UNCHANGED flock_held
    /\ UNCHANGED <<conn, outcome>>
    /\ UNCHANGED stats
    /\ UNCHANGED lock_file

\* database_lock(), line 61-67: the finally block.
\*   flock(lock_fd, LOCK_UN) on a closed descriptor raises OSError, which is
\*   swallowed (line 65-66); on an open one it drops the lock.
\*   os.close(lock_fd) on a closed descriptor raises OSError(EBADF); raised
\*   inside finally, it replaces the exception in flight.
database_lock_finally(r) ==
    /\ pc[r] \in {"enter_finally", "exit_finally"}
    /\ flock_held' = IF lock_fd[r] = "open" THEN flock_held \ {r} ELSE flock_held
    /\ exc' = [exc EXCEPT ![r] = IF lock_fd[r] = "open" THEN @ ELSE "OSError"]
    /\ lock_fd' = [lock_fd EXCEPT ![r] = "closed"]
    /\ pc' = [pc EXCEPT ![r] = IF @ = "enter_finally" THEN "enter_raised"
                                                        ELSE "released"]
    /\ UNCHANGED <<conn, outcome>>
    /\ UNCHANGED stats
    /\ UNCHANGED lock_file

\* main(), line 274-279: only DatabaseLockError is caught (printed, then
\* sys.exit(1)); any other exception leaves main() uncaught.
main_lock_error(r) ==
    /\ pc[r] = "enter_raised"
    /\ outcome' = [outcome EXCEPT ![r] =
                      IF exc[r] = "DatabaseLockError" THEN "locked_error"
                                                      ELSE "uncaught"]
    /\ pc' = [pc EXCEPT ![r] = "exited"]
    /\ UNCHANGED <<lock_fd, flock_held, conn, exc>>
    /\ UNCHANGED stats
    /\ UNCHANGED lock_file

\* main(), line 281-284: get_connection() either returns a connection or
\* raises (the store cannot be opened); conn stays unbound when it raises.
main_connect(r) ==
    /\ pc[r] = "entered"
    /\ \E ok \in BOOLEAN :
         IF ok THEN /\ conn' = [conn EXCEPT ![r] = "open"]
                    /\ pc' = [pc EXCEPT ![r] = "body"]
                    /\ UNCHANGED exc
               ELSE /\ exc' = [exc EXCEPT ![r] = "IOException"]
                    /\ pc' = [pc EXCEPT ![r] = "main_finally"]
                    /\ UNCHANGED conn
    /\ UNCHANGED <<lock_fd, flock_held, outcome>>
    /\ UNCHANGED stats
    /\ UNCHANGED lock_file

\* main(), line 284-337: the pipeline (clear-only return, run_scrapers,
\* normalize_data, show_stats).  It ends normally or with an exception; both
\* ways control reaches the finally block of line 339.
main_body(r) ==
    /\ pc[r] = "body"
    /\ \E raises \in BOOLEAN :
         exc' = [exc EXCEPT ![r] = IF raises THEN "Exception" ELSE "none"]
    /\ pc' = [pc EXCEPT ![r] = "main_finally"]
    /\ UNCHANGED <<lock_fd, flock_held, conn, outcome>>
    /\ UNCHANGED stats
    /\ UNCHANGED lock_file

\* main(), line 339-342: conn.close(), then lock_context.__exit__().  With
\* conn unbound, conn.close() raises UnboundLocalError inside finally and
\* __exit__ is never called: the process ends still holding the lock.
main_finally(r) ==
    /\ pc[r] = "main_finally"
    /\ IF conn[r] = "unbound"
         THEN /\ exc' = [exc EXCEPT ![r] = "UnboundLocalError"]
              /\ outcome' = [outcome EXCEPT ![r] = "uncaught"]
              /\ pc' = [pc EXCEPT ![r] = "exited"]
              /\ UNCHANGED conn
         ELSE /\ conn' = [conn EXCEPT ![r] = "closed"]
              /\ pc' = [pc EXCEPT ![r] = "exit_finally"]
              /\ UNCHANGED <<exc, outcome>>
    /\ UNCHANGED <<lock_fd, flock_held>>
    /\ UNCHANGED stats
    /\ UNCHANGED lock_file

\* main() returns after lock_context.__exit__() (line 342); an exception of
\* the body is re-raised after the finally block.
main_return(r) ==
    /\ pc[r] = "released"
    /\ outcome' = [outcome EXCEPT ![r] =
                      IF exc[r] = "none" THEN "ok" ELSE "uncaught"]
    /\ pc' = [pc EXCEPT ![r] = "exited"]
    /\ UNCHANGED <<lock_fd, flock_held, conn, exc>>
    /\ UNCHANGED stats
    /\ UNCHANGED lock_file

\* The process ends: the operating system closes its descriptors, which
\* drops a flock the process still holds.  A later process starts afresh.
process_exit(r) ==
    /\ pc[r] = "exited"
    /\ flock_held' = flock_held \ {r}
    /\ lock_fd' = [lock_fd EXCEPT ![r] = "unset"]
    /\ conn' = [conn EXCEPT ![r] = "unbound"]
    /\ exc' = [exc EXCEPT ![r] = "none"]
    /\ outcome' = [outcome EXCEPT ![r] = "running"]
    /\ stats' = [stats EXCEPT ![r] = FALSE]
    /\ pc' = [pc EXCEPT ![r] = "idle"]
    /\ UNCHANGED lock_file

\* A --stats process that takes the write lock before it connects.
main_stats_connect_locked(r) ==
    /\ pc[r] = "idle"
    /\ stats' = [stats EXCEPT ![r] = TRUE]
    /\ lock_fd' = [lock_fd EXCEPT ![r] = "open"]
    /\ flock_held' = flock_held \cup {r}
    /\ conn' = [conn EXCEPT ![r] = "read_only"]
    /\ pc' = [pc EXCEPT ![r] = "stats_body"]
    /\ UNCHANGED <<exc, outcome>>
    /\ lock_file' = TRUE

\* main(), line 264-266: with --stats, get_connection(read_only=True)
\* (db.py line 465-472) is the first thing done; database_lock() is not
\* called.  The connection is made or duckdb.connect raises, which leaves
\* main() uncaught.
main_stats_connect(r) ==
    /\ pc[r] = "idle"
    /\ stats' = [stats EXCEPT ![r] = TRUE]
    /\ \E ok \in BOOLEAN :
         IF ok THEN /\ conn' = [conn EXCEPT ![r] = "read_only"]
                    /\ pc' = [pc EXCEPT ![r] = "stats_body"]
                    /\ UNCHANGED <<exc, outcome>>
               ELSE /\ exc' = [exc EXCEPT ![r] = "IOException"]
                    /\ outcome' = [outcome EXCEPT ![r] = "uncaught"]
                    /\ pc' = [pc EXCEPT ![r] = "exited"]
                    /\ UNCHANGED conn
    /\ UNCHANGED <<lock_fd, flock_held>>
    /\ UNCHANGED lock_file

\* main(), line 267-268: show_stats(conn, sources) returns or raises.
main_stats_show(r) ==
    /\ pc[r] = "stats_body"
    /\ \E raises \in BOOLEAN :
         exc' = [exc EXCEPT ![r] = IF raises THEN "Exception" ELSE "none"]
    /\ pc' = [pc EXCEPT ![r] = "stats_finally"]
    /\ UNCHANGED <<lock_fd, flock_held, conn, outcome, stats>>
    /\ UNCHANGED lock_file

\* main(), line 269-271: conn.close() in the finally block, then return (or
\* the exception of show_stats goes on).
main_stats_finally(r) ==
    /\ pc[r] = "stats_finally"
    /\ conn' = [conn EXCEPT ![r] = "closed"]
    /\ outcome' = [outcome EXCEPT ![r] =
                      IF exc[r] = "none" THEN "ok" ELSE "uncaught"]
    /\ pc' = [pc EXCEPT ![r] = "exited"]
    /\ UNCHANGED <<lock_fd, flock_held, exc, stats>>
    /\ UNCHANGED lock_file

\* The open file description of the API server's is_database_locked().
Probe == 0

\* is_database_locked(), db.py line 76-77: without the lock file the answer
\* is False.
is_database_locked_missing ==
    /\ probe_pc = "idle"
    /\ ~lock_file
    /\ probe_result' = FALSE
    /\ UNCHANGED <<probe_pc, lock_file>>
    /\ UNCHANGED <<pc, lock_fd, flock_held, conn, exc, outcome, stats>>

\* is_database_locked(), line 76-80: the file exists and os.open opens it.
is_database_locked_open ==
    /\ probe_pc = "idle"
    /\ lock_file
    /\ probe_pc' = "flock"
    /\ UNCHANGED <<probe_result, lock_file>>
    /\ UNCHANGED <<pc, lock_fd, flock_held, conn, exc, outcome, stats>>

\* is_database_locked(), line 81-87: flock(lock_fd, LOCK_EX | LOCK_NB).  It
\* is refused while a process holds the lock, and the answer is True;
\* otherwise the probe holds the exclusive lock.
is_database_locked_flock ==
    /\ probe_pc = "flock"
    /\ IF flock_held = {}
         THEN /\ flock_held' = {Probe}
              /\ probe_pc' = "locked"
              /\ UNCHANGED probe_result
         ELSE /\ probe_result' = TRUE
              /\ probe_pc' = "close"
              /\ UNCHANGED flock_held
    /\ UNCHANGED lock_file
    /\ UNCHANGED <<pc, lock_fd, conn, exc, outcome, stats>>

\* is_database_locked(), line 83-85: flock(lock_fd, LOCK_UN), return False.
is_database_locked_unlock ==
    /\ probe_pc = "locked"
    /\ flock_held' = flock_held \ {Probe}
    /\ probe_result' = FALSE
    /\ probe_pc' = "close"
    /\ UNCHANGED lock_file
    /\ UNCHANGED <<pc, lock_fd, conn, exc, outcome, stats>>

\* is_database_locked(), line 88-89: os.close(lock_fd) in the finally
\* block; the value is returned.
is_database_locked_close ==
    /\ probe_pc = "close"
    /\ probe_pc' = "idle"
    /\ UNCHANGED <<probe_result, lock_file>>
    /\ UNCHANGED <<pc, lock_fd, flock_held, conn, exc, outcome, stats>>

InitLock ==
    /\ pc = [r \in Runs |-> "idle"]
    /\ lock_fd = [r \in Runs |-> "unset"]
    /\ flock_held = {}
    /\ conn = [r \in Runs |-> "unbound"]
    /\ exc = [r \in Runs |-> "none"]
    /\ outcome = [r \in Runs |-> "running"]
    /\ stats = [r \in Runs |-> FALSE]
    /\ lock_file = FALSE
    /\ probe_pc = "idle"
    /\ probe_result = FALSE

\* A step of a refresh_all process.
NextRun ==
    \E r \in Runs :
      /\ UNCHANGED <<vars_store, vars_norm, vars_ingest, vars_parse, vars_api>>
      /\ UNCHANGED <<probe_pc, probe_result>>
      /\
        \/ database_lock_open(r)
        \/ database_lock_flock(r)
        \/ database_lock_finally(r)
        \/ main_lock_error(r)
        \/ main_connect(r)
        \/ main_body(r)
        \/ main_finally(r)
        \/ main_return(r)
        \/ process_exit(r)
        \/ main_stats_connect(r)
        \/ main_stats_show(r)
        \/ main_stats_finally(r)

\* A step of the API server's GET /status (api_server_standalone.py line
\* 135-149), which calls is_database_locked().
NextProbe ==
    /\ UNCHANGED <<vars_store, vars_norm, vars_ingest, vars_parse, vars_api>>
    /\ \/ is_database_locked_missing
       \/ is_database_locked_open
       \/ is_database_locked_flock
       \/ is_database_locked_unlock
       \/ is_database_locked_close

NextLock == NextRun \/ NextProbe

(***************************************************************************)
(* Part 2.  db.normalize_data over the placements table                    *)
(***************************************************************************)

\* SQL NULL.  No part name, ratchet or bit of the vocabulary equals it, so
\* "col = ?" is never true of a NULL column, as in SQL.
NULL == "NULL"

\* db.py line 101-146, in dict order: <<full name, lock chip, main blade>>.
CX_BLADE_COMPONENTS == <<
    <<"Dran Brave", "Dran", "Brave">>,
    <<"Emperor Brave", "Emperor", "Brave">>,
    <<"Wizard Arc", "Wizard", "Arc">>,
    <<"Perseus Dark", "Perseus", "Dark">>,
    <<"Hells Reaper", "Hells", "Reaper">>,
    <<"Fox Brush", "Fox", "Brush">>,
    <<"Pegasus Blast", "Pegasus", "Blast">>,
    <<"Cerberus Blast", "Cerberus", "Blast">>,
    <<"Hells Blast", "Hells", "Blast">>,
    <<"Emperor Blast", "Emperor", "Blast">>,
    <<"Wolf Blast", "Wolf", "Blast">>,
    <<"Dran Blast", "Dran", "Blast">>,
    <<"Valkyrie Blast", "Valkyrie", "Blast">>,
    <<"Valkyrie Blast W", "Valkyrie", "Blast">>,
    <<"Valkyrie Blast S", "Valkyrie", "Blast">>,
    <<"Sol Blast", "Sol", "Blast">>,
    <<"Perseus Blast W", "Perseus", "Blast">>,
    <<"Kraken Blast", "Kraken", "Blast">>,
    <<"Sol Eclipse", "Sol", "Eclipse">>,
    <<"Emperor Eclipse", "Emperor", "Eclipse">>,
    <<"Hells Eclipse", "Hells", "Eclipse">>,
    <<"Wolf Hunt", "Wolf", "Hunt">>,
    <<"Emperor Hunt", "Emperor", "Hunt">>,
    <<"Perseus Hunt", "Perseus", "Hunt">>,
    <<"Emperor Might", "Emperor", "Might">>,
    <<"Cerberus Might", "Cerberus", "Might">>,
    <<"Dran Might", "Dran", "Might">>,
    <<"Whale Might", "Whale", "Might">>,
    <<"Phoenix Flare", "Phoenix", "Flare">>,
    <<"Pegasus Flame", "Pegasus", "Flare">>,
    <<"Valkyrie Volt", "Valkyrie", "Volt">>,
    <<"Valkyrie Volt A", "Valkyrie", "Volt">>
>>

\* db.py line 151-164.
CX_MAIN_BLADES == {
    "Arc", "Blast", "Brave", "Brush", "Dark", "Eclipse", "Flare", "Hunt",
    "Might", "Reaper", "Storm", "Volt"}

\* db.py line 167-182.
CX_LOCK_CHIPS == {
    "Cerberus", "Dran", "Emperor", "Fox", "Hells", "Kraken", "Pegasus",
    "Perseus", "Phoenix", "Sol", "Valkyrie", "Whale", "Wizard", "Wolf"}

\* db.py line 834-1119, in dict order: <<wrong, correct>>.  A character outside
\* ASCII is written {U+hhhh}; the encoding is one-to-one, so equality of
\* names is preserved.
BLADE_NORMALIZATIONS == <<
    <<"Aero Pegaus", "Aero Pegasus">>,
    <<"Aero Pegesus", "Aero Pegasus">>,
    <<"Aerp Pegasus", "Aero Pegasus">>,
    <<"[ ] Aero Pegasus", "Aero Pegasus">>,
    <<"Coablt Dragoon", "Cobalt Dragoon">>,
    <<"Cobal Dragoon", "Cobalt Dragoon">>,
    <<"Cobalt Dragon", "Cobalt Dragoon">>,
    <<"Colbat Dragoon", "Cobalt Dragoon">>,
    <<"Side: Cobalt Dragoon", "Cobalt Dragoon">>,
    <<"[ ] Cobalt Dragoon", "Cobalt Dragoon">>,
    <<"Hovern Wyvern", "Hover Wyvern">>,
    <<"Hover", "Hover Wyvern">>,
    <<"Roar Tyrnano", "Roar Tyranno">>,
    <<"Roar Tryanno", "Roar Tyranno">>,
    <<"Tyrano Roar", "Roar Tyranno">>,
    <<"Tyranno Beat,", "Tyranno Beat">>,
    <<"Tyrano Beat", "Tyranno Beat">>,
    <<"Tyranno", "Tyranno Beat">>,
    <<"T. Rex", "Tyranno Beat">>,
    <<"Beat Tyranno", "Tyranno Beat">>,
    <<"Samauri Saber", "Samurai Saber">>,
    <<"Samurai Caliber", "Samurai Calibur">>,
    <<"Samurai", "Samurai Saber">>,
    <<"Wizardr Rod", "Wizard Rod">>,
    <<"Wizarz Rod", "Wizard Rod">>,
    <<"Wizard Rod,", "Wizard Rod">>,
    <<"Side Board) Wizard Rod", "Wizard Rod">>,
    <<"[ ] Wizard Rod", "Wizard Rod">>,
    <<"Wand Wizard", "Wizard Rod">>,
    <<"Sliver Wolf", "Silver Wolf">>,
    <<"Sterling Wolf", "Silver Wolf">>,
    <<"Side: Silver Wolf", "Silver Wolf">>,
    <<"Shake Scale", "Shark Scale">>,
    <<"Wave Wave", "Whale Wave">>,
    <<"Tide Whale", "Whale Wave">>,
    <<"Rock Golem", "Golem Rock">>,
    <<"[ ] Golem Rock", "Golem Rock">>,
    <<"Soar Phoenix", "Phoenix Wing">>,
    <<"Phoenix2ing", "Phoenix Wing">>,
    <<"phoenix", "Phoenix Wing">>,
    <<"Phoenix", "Phoenix Wing">>,
    <<"[ ] Phoenix Wing", "Phoenix Wing">>,
    <<"[ ] Hells Scythe", "Hells Scythe">>,
    <<"Wizard Arrow.", "Wizard Arrow">>,
    <<"Arrow Wizard", "Wizard Arrow">>,
    <<"uster", "Dran Buster">>,
    <<"Buster Dran", "Dran Buster">>,
    <<"Silver Samurai", "Steel Samurai">>,
    <<"Fox Blast", "Fox Brush">>,
    <<"Brush Fox", "Fox Brush">>,
    <<"Sword Dran", "Dran Sword">>,
    <<"Dagger Dran", "Dran Dagger">>,
    <<"Saber Samurai", "Samurai Saber">>,
    <<"Horn Rhino", "Rhino Horn">>,
    <<"Shadow Shinobi", "Shinobi Shadow">>,
    <<"{U+2022}  Soar Phoenix", "Phoenix Wing">>,
    <<"{U+2022}  Shark Scale", "Shark Scale">>,
    <<"{U+2022}  Silver Wolf", "Silver Wolf">>,
    <<"{U+2022}  Golem Rock", "Golem Rock">>,
    <<"{U+2022}  Wand Wizard", "Wizard Rod">>,
    <<"{U+2022}  Samurai Calibur", "Samurai Calibur">>,
    <<"Jigoku: Wand Wizard", "Wizard Rod">>,
    <<"Vio: Wand Wizard", "Wizard Rod">>,
    <<"AkhiEly: Wand Wizard", "Wizard Rod">>,
    <<"MozartEmredeus: Shark Scale", "Shark Scale">>,
    <<"stealth: Shark Scale", "Shark Scale">>,
    <<"Su{U+00E1}rez: Tide Whale", "Whale Wave">>,
    <<"Drice: Pegasus Blast", "Pegasus Blast">>,
    <<"Zero: Buster Dran", "Dran Buster">>,
    <<"Der Grillmeister: Hover Wyvern", "Hover Wyvern">>,
    <<"Obsidian Shell", "Black Shell">>,
    <<"Might Blast", "Emperor Might">>,
    <<"Blast Might", "Emperor Might">>,
    <<"Brave Blast", "Dran Brave">>,
    <<"Blast Brave", "Dran Brave">>,
    <<"Arc Blast", "Wizard Arc">>,
    <<"Blast Arc", "Wizard Arc">>,
    <<"Eclipse Blast", "Sol Eclipse">>,
    <<"Blast Eclipse", "Sol Eclipse">>,
    <<"Hunt Blast", "Wolf Hunt">>,
    <<"Blast Hunt", "Wolf Hunt">>,
    <<"Reaper Blast", "Hells Reaper">>,
    <<"Blast Reaper", "Hells Reaper">>,
    <<"Flare Blast", "Phoenix Flare">>,
    <<"Blast Flare", "Phoenix Flare">>,
    <<"Volt Blast", "Valkyrie Volt">>,
    <<"Blast Volt", "Valkyrie Volt">>,
    <<"Mail Knight", "Knight Mail">>,
    <<"|| KnightLance", "Knight Lance">>,
    <<"|| KnightShield", "Knight Shield">>,
    <<"|| Knight Lance", "Knight Lance">>,
    <<"|| Knight Shield", "Knight Shield">>,
    <<"Ace Pok{U+00E9}bey: Impact Drake", "Impact Drake">>,
    <<"Ace Pok{U+00E9}bey: Rock Golem", "Golem Rock">>,
    <<"Ace Pok{U+00E9}bey: Samurai Calibur", "Samurai Calibur">>,
    <<"{U+30C9}{U+30E9}{U+30F3}{U+30BD}{U+30FC}{U+30C9}", "Dran Sword">>,
    <<"{U+30D8}{U+30EB}{U+30BA}{U+30B5}{U+30A4}{U+30BA}", "Hells Scythe">>,
    <<"{U+30A6}{U+30A3}{U+30B6}{U+30FC}{U+30C9}{U+30A2}{U+30ED}{U+30FC}", "Wizard Arrow">>,
    <<"{U+30CA}{U+30A4}{U+30C8}{U+30B7}{U+30FC}{U+30EB}{U+30C9}", "Knight Shield">>,
    <<"{U+30CA}{U+30A4}{U+30C8}{U+30E9}{U+30F3}{U+30B9}", "Knight Lance">>,
    <<"{U+30C9}{U+30E9}{U+30F3}{U+30D0}{U+30B9}{U+30BF}{U+30FC}", "Dran Buster">>,
    <<"{U+30D8}{U+30EB}{U+30BA}{U+30CF}{U+30F3}{U+30DE}{U+30FC}", "Hells Hammer">>,
    <<"{U+30A6}{U+30A3}{U+30B6}{U+30FC}{U+30C9}{U+30ED}{U+30C3}{U+30C9}", "Wizard Rod">>,
    <<"{U+30B7}{U+30EB}{U+30D0}{U+30FC}{U+30A6}{U+30EB}{U+30D5}", "Silver Wolf">>,
    <<"{U+30B5}{U+30E0}{U+30E9}{U+30A4}{U+30BB}{U+30A4}{U+30D0}{U+30FC}", "Samurai Saber">>,
    <<"{U+30DA}{U+30AC}{U+30B5}{U+30B9}{U+30D6}{U+30E9}{U+30B9}{U+30C8}", "Pegasus Blast">>,
    <<"{U+30A8}{U+30A2}{U+30ED}{U+30DA}{U+30AC}{U+30B5}{U+30B9}", "Aero Pegasus">>,
    <<"{U+30B3}{U+30D0}{U+30EB}{U+30C8}{U+30C9}{U+30E9}{U+30B0}{U+30FC}{U+30F3}", "Cobalt Dragoon">>,
    <<"{U+30E1}{U+30C6}{U+30AA}{U+30C9}{U+30E9}{U+30B0}{U+30FC}{U+30F3}", "Meteor Dragoon">>,
    <<"{U+30B4}{U+30FC}{U+30EC}{U+30E0}{U+30ED}{U+30C3}{U+30AF}", "Golem Rock">>,
    <<"{U+30A4}{U+30F3}{U+30D1}{U+30AF}{U+30C8}{U+30C9}{U+30EC}{U+30A4}{U+30AF}", "Impact Drake">>,
    <<"{U+30B7}{U+30E3}{U+30FC}{U+30AF}{U+30B9}{U+30B1}{U+30A4}{U+30EB}", "Shark Scale">>,
    <<"{U+30DB}{U+30D0}{U+30FC}{U+30EF}{U+30A4}{U+30D0}{U+30FC}{U+30F3}", "Hover Wyvern">>,
    <<"{U+30D5}{U+30A9}{U+30C3}{U+30AF}{U+30B9}{U+30D6}{U+30E9}{U+30B9}{U+30C8}W", "Brush">>,
    <<"Emperor Blast", "Blast">>,
    <<"Wolf Blast", "Blast">>,
    <<"Dran Blast", "Blast">>,
    <<"Pegasus Blast", "Blast">>,
    <<"Hells Blast", "Blast">>,
    <<"Cerberus Blast", "Blast">>,
    <<"Valkyrie Blast", "Blast">>,
    <<"Valkyrie Blast W", "Blast">>,
    <<"Valkyrie Blast S", "Blast">>,
    <<"Sol Blast", "Blast">>,
    <<"Perseus Blast W", "Blast">>,
    <<"Kraken Blast", "Blast">>,
    <<"{U+30C9}{U+30E9}{U+30F3}{U+30D6}{U+30E9}{U+30B9}{U+30C8}W", "Blast">>,
    <<"{U+30DA}{U+30AC}{U+30B5}{U+30B9}{U+30D6}{U+30E9}{U+30B9}{U+30C8}W", "Blast">>,
    <<"{U+30BD}{U+30EB}{U+30D6}{U+30E9}{U+30B9}{U+30C8}J", "Blast">>,
    <<"Pegasus Blast (Ultra Instinct)", "Blast">>,
    <<"Pegasus (Ultra Instinct) Blast", "Blast">>,
    <<"Emperor Hunt", "Hunt">>,
    <<"Wolf Hunt", "Hunt">>,
    <<"Perseus Hunt", "Hunt">>,
    <<"Emperor Eclipse", "Eclipse">>,
    <<"Sol Eclipse", "Eclipse">>,
    <<"Hells Eclipse", "Eclipse">>,
    <<"Emperor Might", "Might">>,
    <<"Cerberus Might", "Might">>,
    <<"Dran Might", "Might">>,
    <<"Whale Might", "Might">>,
    <<"Dran Brave", "Brave">>,
    <<"Emperor Brave", "Brave">>,
    <<"Valkyrie Volt", "Volt">>,
    <<"Valkyrie Volt A", "Volt">>,
    <<"Phoenix Flare", "Flare">>,
    <<"Pegasus Flame", "Flare">>,
    <<"Wizard Arc", "Arc">>,
    <<"Perseus Dark", "Dark">>,
    <<"Hells Reaper", "Reaper">>,
    <<"Fox Brush", "Brush">>,
    <<"Dragoon Storm", "Dragoon Storm">>,
    <<"Driger Slash", "Driger Slash">>,
    <<"Blast", "Blast">>,
    <<"Hunt", "Hunt">>,
    <<"Might", "Might">>,
    <<"Brave", "Brave">>,
    <<"Arc", "Arc">>,
    <<"Brush", "Brush">>,
    <<"Eclipse", "Eclipse">>,
    <<"Volt", "Volt">>,
    <<"Flare", "Flare">>,
    <<"Dark", "Dark">>,
    <<"Reaper", "Reaper">>,
    <<"Emperor", "Blast">>,
    <<"WizardRod", "Wizard Rod">>,
    <<"PhoenixWing", "Phoenix Wing">>,
    <<"CobaltDragoon", "Cobalt Dragoon">>,
    <<"AeroPegasus", "Aero Pegasus">>,
    <<"SharkScale", "Shark Scale">>,
    <<"TyrannoBeat", "Tyranno Beat">>,
    <<"HoverWyvern", "Hover Wyvern">>,
    <<"SilverWolf", "Silver Wolf">>,
    <<"KnightMail", "Knight Mail">>,
    <<"DranBuster", "Dran Buster">>,
    <<"HellsScythe", "Hells Scythe">>,
    <<"ImpactDrake", "Impact Drake">>,
    <<"SharkEdge", "Shark Edge">>,
    <<"ScorpioSpear", "Scorpio Spear">>,
    <<"DranSword", "Dran Sword">>,
    <<"WhaleWave", "Whale Wave">>,
    <<"GolemRock", "Golem Rock">>,
    <<"LeonClaw", "Leon Claw">>,
    <<"WyvernGale", "Wyvern Gale">>,
    <<"LeonCrest", "Leon Crest">>,
    <<"ShinobiShadow", "Shinobi Shadow">>,
    <<"SamuraiCalibur", "Samurai Calibur">>,
    <<"ViperTail", "Viper Tail">>,
    <<"PhoenixFeather", "Phoenix Feather">>,
    <<"DrigerSlash", "Driger Slash">>,
    <<"DragoonStorm", "Dragoon Storm">>,
    <<"RhinoHorn", "Rhino Horn">>,
    <<"WizardArrow", "Wizard Arrow">>,
    <<"KnightShield", "Knight Shield">>,
    <<"KnightLance", "Knight Lance">>,
    <<"HellsChain", "Hells Chain">>,
    <<"HellsHammer", "Hells Hammer">>,
    <<"UnicornSting", "Unicorn Sting">>,
    <<"BlackShell", "Black Shell">>,
    <<"DranDagger", "Dran Dagger">>,
    <<"WeissTiger", "Weiss Tiger">>,
    <<"CobaltDrake", "Cobalt Drake">>,
    <<"CrimsonGaruda", "Crimson Garuda">>,
    <<"TalonPtera", "Talon Ptera">>,
    <<"RoarTyranno", "Roar Tyranno">>,
    <<"SphinxCowl", "Sphinx Cowl">>,
    <<"ShelterDrake", "Shelter Drake">>,
    <<"TrySpress", "Tricera Press">>,
    <<"TriceraPress", "Tricera Press">>,
    <<"BearScratch", "Bear Scratch">>,
    <<"XenoXcalibur", "Xeno Xcalibur">>,
    <<"SteelSamurai", "Steel Samurai">>,
    <<"BurnWyvern", "Burn Wyvern">>,
    <<"TuskMammoth", "Tusk Mammoth">>,
    <<"DranzerSpiral", "Dranzer Spiral">>,
    <<"MeteorDragoon", "Meteor Dragoon">>,
    <<"SamuraiSaber", "Samurai Saber">>,
    <<"GhostCircle", "Ghost Circle">>,
    <<"BiteCroc", "Bite Croc">>,
    <<"KeelShark", "Keel Shark">>,
    <<"KnifeShinobi", "Knife Shinobi">>,
    <<"ChainIncendio", "Chain Incendio">>,
    <<"ClockMirage", "Clock Mirage">>,
    <<"GillShark", "Gill Shark">>,
    <<"MummyCurse", "Mummy Curse">>,
    <<"ScytheIncendio", "Scythe Incendio">>,
    <<"StingUnicorn", "Sting Unicorn">>,
    <<"WandWizard", "Wizard Rod">>,
    <<"ProminencePhoenix", "Prominence Phoenix">>,
    <<"PhoenixRudder", "Phoenix Rudder">>
>>

\* db.py line 1122-1177, in dict order: <<wrong, correct>>.
BIT_NORMALIZATIONS == <<
    <<"U", "Unite">>,
    <<"L", "Level">>,
    <<"E", "Elevate">>,
    <<"G", "Glide">>,
    <<"Q", "Quake">>,
    <<"K", "Kick">>,
    <<"V", "Vanguard">>,
    <<"Lv", "Level">>,
    <<"El", "Elevate">>,
    <<"Un", "Unite">>,
    <<"Br", "Brake">>,
    <<"Bd", "Bound">>,
    <<"Gl", "Glide">>,
    <<"WB", "Wall Ball">>,
    <<"UN", "Under Needle">>,
    <<"RA", "Rubber Accel">>,
    <<"FB", "Free Ball">>,
    <<"UF", "Upper Flat">>,
    <<"GF", "Gear Flat">>,
    <<"GB", "Gear Ball">>,
    <<"GN", "Gear Needle">>,
    <<"GP", "Gear Point">>,
    <<"HN", "High Needle">>,
    <<"LF", "Low Flat">>,
    <<"LR", "Low Rush">>,
    <<"LN", "Low Needle">>,
    <<"MN", "Metal Needle">>,
    <<"HT", "High Taper">>,
    <<"HA", "High Accel">>,
    <<"DB", "Disc Ball">>,
    <<"Hex", "Hexa">>,
    <<"LowOrb", "Low Orb">>,
    <<"WallBall", "Wall Ball">>,
    <<"FreeBall", "Free Ball">>,
    <<"HighNeedle", "High Needle">>,
    <<"LowFlat", "Low Flat">>,
    <<"LowRush", "Low Rush">>,
    <<"LowNeedle", "Low Needle">>,
    <<"GearFlat", "Gear Flat">>,
    <<"GearBall", "Gear Ball">>,
    <<"GearNeedle", "Gear Needle">>,
    <<"GearPoint", "Gear Point">>,
    <<"MetalNeedle", "Metal Needle">>,
    <<"HighTaper", "High Taper">>,
    <<"HighAccel", "High Accel">>,
    <<"DiscBall", "Disc Ball">>,
    <<"RubberAccel", "Rubber Accel">>,
    <<"UnderNeedle", "Under Needle">>,
    <<"UpperFlat", "Upper Flat">>,
    <<"RushAccel", "Rush Accel">>
>>

\* db.py line 1180-1182: <<wrong, correct>>.
RATCHET_NORMALIZATIONS == <<
    <<"5-50", "4-50">>
>>

\* The slot numbers i of the columns blade_i, ratchet_i, bit_i, assist_i,
\* lock_chip_i, stage_i (db.py line 527-544).
Slots == 1..3

\* SELECT COUNT(*) FROM placements WHERE {col}_i = v.
count_where(rows, col, i, v) ==
    Cardinality({p \in rows : p.slots[i][col] = v})

\* UPDATE placements SET {col}_i = correct WHERE {col}_i = wrong.
update_where(rows, col, i, wrong, correct) ==
    { IF p.slots[i][col] = wrong
        THEN [p EXCEPT !.slots[i][col] = correct]
        ELSE p : p \in rows }

\* Count the rows holding wrong in {col}_i, overwrite them if there are any,
\* add the count to total_fixed (e.g. line 1201-1207 and 1227 for blade_1).
\* S is [rows, total_fixed].
fix_slot(S, col, i, wrong, correct) ==
    LET count == count_where(S.rows, col, i, wrong)
    IN [rows |-> IF count > 0
                   THEN update_where(S.rows, col, i, wrong, correct)
                   ELSE S.rows,
        total_fixed |-> S.total_fixed + count]

\* The body of a normalization loop for one <<wrong, correct>> pair: the
\* columns {col}_1, {col}_2, {col}_3 in turn.
fix_entry(S, col, wrong, correct) ==
    fix_slot(fix_slot(fix_slot(S, col, 1, wrong, correct),
                      col, 2, wrong, correct),
             col, 3, wrong, correct)

\* The entries lo..hi of the table applied last to first.
RECURSIVE fix_column_reversed(_, _, _, _, _)
fix_column_reversed(S, table, col, lo, hi) ==
    IF lo > hi \/ S.rows = {} THEN S
    ELSE IF lo = hi THEN fix_entry(S, col, table[lo][1], table[lo][2])
    ELSE fix_column_reversed(
           fix_column_reversed(S, table, col, (lo + hi) \div 2 + 1, hi),
           table, col, lo, (lo + hi) \div 2)

\* One loop of normalize_data over a table of <<wrong, correct>> pairs: the
\* entries lo..hi in dict order (line 1199-1227 for blade, 1230-1258 for bit,
\* 1261-1270 for ratchet, 1273-1282 for assist).  The range is split in
\* halves, the first half being settled before the second is entered; on an
\* empty table no statement matches a row.
RECURSIVE fix_column(_, _, _, _, _)
fix_column(S, table, col, lo, hi) ==
    IF lo > hi \/ S.rows = {} THEN S
    ELSE IF lo = hi THEN fix_entry(S, col, table[lo][1], table[lo][2])
    ELSE fix_column(fix_column(S, table, col, lo, (lo + hi) \div 2),
                    table, col, (lo + hi) \div 2 + 1, hi)

\* Rows whose blade_i is cx_name and whose lock_chip_i IS NULL (line 1290-1293).
cx_matches(rows, i, cx_name) ==
    {p \in rows : p.slots[i].blade = cx_name /\ p.slots[i].lock_chip = NULL}

\* UPDATE placements SET blade_i = main_blade, lock_chip_i = lock_chip
\* WHERE blade_i = cx_name AND lock_chip_i IS NULL (line 1295-1298).
cx_update(rows, i, cx_name, lock_chip, main_blade) ==
    { IF p \in cx_matches(rows, i, cx_name)
        THEN [p EXCEPT !.slots[i].blade = main_blade,
                       !.slots[i].lock_chip = lock_chip]
        ELSE p : p \in rows }

\* normalize_data, line 1286-1299: one column pair blade_i / lock_chip_i for
\* one entry cx = <<cx_name, lock_chip, main_blade>>.
extract_slot(S, i, cx) ==
    LET count == Cardinality(cx_matches(S.rows, i, cx[1]))
    IN [rows |-> IF count > 0
                   THEN cx_update(S.rows, i, cx[1], cx[2], cx[3])
                   ELSE S.rows,
        total_fixed |-> S.total_fixed + count]

\* normalize_data, line 1284-1299: the lock chip extraction loop over the
\* entries lo..hi of CX_BLADE_COMPONENTS in dict order and, inside it, over
\* i = 1, 2, 3.
RECURSIVE extract_lock_chips(_, _, _)
extract_lock_chips(S, lo, hi) ==
    IF lo > hi \/ S.rows = {} THEN S
    ELSE IF lo = hi
      THEN extract_slot(extract_slot(extract_slot(S, 1, CX_BLADE_COMPONENTS[lo]),
                                     2, CX_BLADE_COMPONENTS[lo]),
                        3, CX_BLADE_COMPONENTS[lo])
    ELSE extract_lock_chips(extract_lock_chips(S, lo, (lo + hi) \div 2),
                            (lo + hi) \div 2 + 1, hi)

\* normalize_data, line 1302-1316.
MAIN_BLADES == {"Blast", "Brave", "Arc", "Dark", "Reaper", "Brush", "Eclipse",
                "Hunt", "Might", "Flare", "Volt", "Storm", "Slash"}

\* UPDATE placements SET lock_chip_i = NULL WHERE lock_chip_i = blade, for
\* every blade of MAIN_BLADES and i = 1, 2, 3 (line 1317-1328).  A column
\* matches at most one blade and is NULL afterwards, so the result does not
\* depend on the order in which the set is iterated.
clean_lock_chips_delete(S) ==
    [rows |-> {p \in S.rows : \A i \in Slots : p.slots[i].lock_chip \notin MAIN_BLADES},
     total_fixed |-> S.total_fixed
        + Cardinality({<<p, i>> \in S.rows \X Slots :
                          p.slots[i].lock_chip \in MAIN_BLADES})]

clean_lock_chips(S) ==
    [rows |-> { [p EXCEPT !.slots = [i \in Slots |->
                    IF p.slots[i].lock_chip \in MAIN_BLADES
                      THEN [p.slots[i] EXCEPT !.lock_chip = NULL]
                      ELSE p.slots[i]]] : p \in S.rows },
     total_fixed |-> S.total_fixed
        + Cardinality({<<p, i>> \in S.rows \X Slots :
                          p.slots[i].lock_chip \in MAIN_BLADES})]

\* normalize_data, line 1185-1333, as a function of the placements table:
\* the resulting table and the returned total_fixed.
normalize_data(rows) ==
    LET s0 == [rows |-> rows, total_fixed |-> 0]
        s1 == fix_column(s0, BLADE_NORMALIZATIONS, "blade",
                         1, Len(BLADE_NORMALIZATIONS))
        s2 == fix_column(s1, BIT_NORMALIZATIONS, "bit",
                         1, Len(BIT_NORMALIZATIONS))
        s3 == fix_column(s2, RATCHET_NORMALIZATIONS, "ratchet",
                         1, Len(RATCHET_NORMALIZATIONS))
        s4 == fix_column(s3, BLADE_NORMALIZATIONS, "assist",
                         1, Len(BLADE_NORMALIZATIONS))
        s5 == extract_lock_chips(s4, 1, Len(CX_BLADE_COMPONENTS))
    IN clean_lock_chips(s5)

\* Number of successive normalize_data runs that are followed.
MaxNormRuns == 2

\* refresh_all.main line 302-309 (or any caller): one run of normalize_data
\* on the store.
run_normalize_data ==
    /\ norm_runs < MaxNormRuns
    /\ LET res == normalize_data(placements)
       IN /\ placements' = res.rows
          /\ fixed_count' = res.total_fixed
    /\ norm_runs' = norm_runs + 1
    /\ UNCHANGED <<tournaments, placements_before>>
    /\ UNCHANGED <<vars_lock, vars_ingest, vars_parse, vars_api>>

(***************************************************************************)
(* Part 3.  insert_tournament, scrape, import_championships and the clear  *)
(*          operations                                                     *)
(*                                                                         *)
(* Representation of values.  A wbo_post_id is the sequence of its         *)
(* characters, so that LIKE patterns and f-string concatenation are        *)
(* computed.  A Python value that is not a string and may be None (a       *)
(* datetime, a returned id) is a tuple, None being the empty tuple.  A     *)
(* nullable string is the string or NULL.                                  *)
(***************************************************************************)

\* Python None, for a value that is not a string.
None == <<>>

\* A datetime / DATE value, to the day.
datetime(year, month, day) == <<year, month, day>>

\* a > b on datetimes.  For a date parsed by strptime (midnight) against
\* datetime.now() this is the comparison of the days.
later(a, b) ==
    \/ a[1] > b[1]
    \/ a[1] = b[1] /\ a[2] > b[2]
    \/ a[1] = b[1] /\ a[2] = b[2] /\ a[3] > b[3]

\* A combo slot of a placements row (db.py line 527-544), also a
\* base_scraper.Combo (line 22-30).
Slot(blade, ratchet, bit, assist, lock_chip, stage) ==
    [blade |-> blade, ratchet |-> ratchet, bit |-> bit, assist |-> assist,
     lock_chip |-> lock_chip, stage |-> stage]

EmptySlot == Slot(NULL, NULL, NULL, NULL, NULL, NULL)

\* A row of table placements (db.py line 521-546).
PlacementRow(id, tournament_id, place, player_name, slots) ==
    [id |-> id, tournament_id |-> tournament_id, place |-> place,
     player_name |-> player_name, player_wbo_id |-> NULL, slots |-> slots]

\* A row of table tournaments (db.py line 501-516).
TournamentRow(id, wbo_post_id, name, date, region) ==
    [id |-> id, wbo_post_id |-> wbo_post_id, name |-> name, date |-> date,
     region |-> region]

\* base_scraper.Placement (line 33-39).
Placement(place, player_name, player_wbo_id, combos) ==
    [place |-> place, player_name |-> player_name,
     player_wbo_id |-> player_wbo_id, combos |-> combos]

\* base_scraper.Tournament (line 42-54); city, state, format, ranked and
\* wbo_url are carried to the row unread and are left out.
Tournament(wbo_post_id, name, date, country, placements_) ==
    [wbo_post_id |-> wbo_post_id, name |-> name, date |-> date,
     country |-> country, placements |-> placements_]

\* The three scrapers (wbo.py line 42-52, jp.py line 210-220, de.py
\* line 182-192).
WBOScraper ==
    [source_name |-> "WBO", source_prefix |-> <<>>, default_region |-> NULL]

JPScraper ==
    [source_name |-> "Japan", source_prefix |-> <<"o", "k", "u", "y", "a", "m", "a", "_">>,
     default_region |-> "JAPAN"]

DEScraper ==
    [source_name |-> "Germany", source_prefix |-> <<"b", "l", "g", "_">>,
     default_region |-> "EU"]

\* The connection's view of the store: the two tables and the sequences
\* seq_tournaments and seq_placements (db.py line 483-484).
Store ==
    [tournaments |-> tournaments, placements |-> placements,
     seq_tournaments |-> seq_tournaments, seq_placements |-> seq_placements]

\* The outcome of a call: the store it leaves, the value it returns and the
\* exception it raises ("none" if it returns).
Return(db, value) == [db |-> db, result |-> value, raised |-> "none"]

Raise(db, exception) == [db |-> db, result |-> None, raised |-> exception]

\* SQL: s LIKE pattern, with % for any run of characters and _ for any one
\* character.
RECURSIVE like(_, _)
like(s, pattern) ==
    IF pattern = <<>> THEN s = <<>>
    ELSE IF Head(pattern) = "%"
         THEN like(s, Tail(pattern)) \/ (s # <<>> /\ like(Tail(s), pattern))
         ELSE /\ s # <<>>
              /\ Head(pattern) \in {"_", Head(s)}
              /\ like(Tail(s), Tail(pattern))

\* The wbo_post_id of a row that has none.
NULL_ID == <<NULL>>

\* WHERE wbo_post_id IS NOT NULL AND wbo_post_id NOT LIKE 'okuyama_%'
\* AND wbo_post_id NOT LIKE 'blg_%'  (wbo.py line 59-61).
is_wbo_id(wbo_post_id) ==
    /\ wbo_post_id # NULL_ID
    /\ ~like(wbo_post_id, <<"o", "k", "u", "y", "a", "m", "a", "_", "%">>)
    /\ ~like(wbo_post_id, <<"b", "l", "g", "_", "%">>)

\* WHERE wbo_post_id LIKE '{source_prefix}%'  (jp.py line 225-226).
has_prefix(wbo_post_id, source_prefix) ==
    /\ wbo_post_id # NULL_ID
    /\ like(wbo_post_id, source_prefix \o <<"%">>)

\* The rows of tournaments a scraper takes for its own.
source_rows(self, rows) ==
    IF self.source_prefix # <<>>
    THEN {r \in rows : has_prefix(r.wbo_post_id, self.source_prefix)}
    ELSE {r \in rows : is_wbo_id(r.wbo_post_id)}

\* BaseScraper.get_processed_ids, line 118-133.
get_processed_ids(self, rows) ==
    {r.wbo_post_id : r \in source_rows(self, rows)}

\* A store whose lookup by wbo_post_id finds nothing.
rows_with_post_id_none(rows, wbo_post_id) == {}

\* The rows of tournaments holding wbo_post_id: the lookup behind
\* WHERE wbo_post_id = ? and behind the UNIQUE constraint.
rows_with_post_id(rows, wbo_post_id) ==
    {r \in rows : wbo_post_id # NULL_ID /\ r.wbo_post_id = wbo_post_id}

\* An existence check that never finds the row.
existing_none(rows, wbo_post_id) == {}

\* SELECT id FROM tournaments WHERE wbo_post_id = ?  (base_scraper.py
\* line 153-156, import_championships.py line 220-223).
existing(rows, wbo_post_id) ==
    {r.id : r \in rows_with_post_id(rows, wbo_post_id)}

\* INSERT INTO tournaments ... RETURNING id, under the constraints of
\* init_schema (db.py line 500-517): name and date NOT NULL, wbo_post_id
\* UNIQUE.  A refused INSERT may or may not have drawn from the sequence
\* (seq_burn).
INSERT_tournaments(db, wbo_post_id, name, date, region) ==
    IF \/ name = NULL
       \/ date = None
       \/ rows_with_post_id(db.tournaments, wbo_post_id) # {}
    THEN Raise([db EXCEPT !.seq_tournaments = @ + seq_burn],
               "ConstraintException")
    ELSE Return([db EXCEPT
                   !.tournaments = @ \cup
                       {TournamentRow(db.seq_tournaments, wbo_post_id, name,
                                      date, region)},
                   !.seq_tournaments = @ + 1],
                <<db.seq_tournaments>>)

\* An INSERT INTO placements that no constraint refuses.
INSERT_placements_unchecked(db, tournament_id, placement, slots) ==
    Return([db EXCEPT
              !.placements = @ \cup
                  {[PlacementRow(db.seq_placements, tournament_id,
                                 placement.place, placement.player_name,
                                 slots)
                      EXCEPT !.player_wbo_id = placement.player_wbo_id]},
              !.seq_placements = @ + 1],
           None)

\* INSERT INTO placements, under the constraints of init_schema (db.py
\* line 520-547): place, player_name, blade_1, ratchet_1, bit_1 NOT NULL and
\* UNIQUE(tournament_id, place).
INSERT_placements(db, tournament_id, placement, slots) ==
    IF \/ placement.player_name = NULL
       \/ slots[1].blade = NULL
       \/ slots[1].ratchet = NULL
       \/ slots[1].bit = NULL
       \/ \E p \in db.placements :
             /\ p.tournament_id = tournament_id
             /\ p.place = placement.place
    THEN Raise([db EXCEPT !.seq_placements = @ + seq_burn],
               "ConstraintException")
    ELSE Return([db EXCEPT
                   !.placements = @ \cup
                       {[PlacementRow(db.seq_placements, tournament_id,
                                      placement.place,
                                      placement.player_name, slots)
                           EXCEPT !.player_wbo_id =
                                      placement.player_wbo_id]},
                   !.seq_placements = @ + 1],
                None)

\* db.infer_region (line 766-811) on the country names of the model:
\* the REGION_MAPPING lookup of the lowercased text.
infer_region(text) ==
    IF text = NULL THEN NULL
    ELSE IF text \in {"USA", "Canada"} THEN "NA"
    ELSE IF text = "Germany" THEN "EU"
    ELSE IF text = "Japan" THEN "JAPAN"
    ELSE NULL

\* db.infer_region_from_tournament (line 814-826); the tournaments of the
\* model have no city or state and a name that infers no region.
infer_region_from_tournament(tournament) == infer_region(tournament.country)

\* A variant of slots_of whose length tests are off by one.
slots_of_off_by_one(combos) ==
    [k \in Slots |-> IF Len(combos) > k THEN combos[k] ELSE EmptySlot]

\* combos[k] if len(combos) > k else None, for the columns of slot k
\* (base_scraper.py line 216-233).
slots_of(combos) ==
    [k \in Slots |-> IF Len(combos) >= k THEN combos[k] ELSE EmptySlot]

\* The placements loop of insert_tournament, base_scraper.py line 197-236,
\* from the k-th placement on.  A refused INSERT is printed and skipped.
RECURSIVE insert_placements(_, _, _, _)
insert_placements(db, tournament_id, placements_, k) ==
    IF k > Len(placements_) THEN db
    ELSE LET placement == placements_[k]
         IN IF placement.combos = <<>>
            THEN insert_placements(db, tournament_id, placements_, k + 1)
            ELSE LET combos == SubSeq(placement.combos, 1,
                                      IF Len(placement.combos) < 3
                                      THEN Len(placement.combos) ELSE 3)
                     ins == INSERT_placements(db, tournament_id, placement,
                                              slots_of(combos))
                 IN insert_placements(ins.db, tournament_id, placements_,
                                      k + 1)

\* A date test that lets every tournament through.
not_date_never(tournament) == FALSE

\* `not tournament.date`, base_scraper.py line 146.
not_date(tournament) == tournament.date = None

\* BaseScraper.insert_tournament, line 135-238.
insert_tournament(self, db, tournament) ==
    IF not_date(tournament) THEN Return(db, None)
    ELSE IF tournament.placements = <<>> THEN Return(db, None)
    ELSE IF existing(db.tournaments, tournament.wbo_post_id) # {}
    THEN Return(db, None)
    ELSE LET inferred == IF self.default_region = NULL
                         THEN infer_region_from_tournament(tournament)
                         ELSE self.default_region
             region == IF inferred = NULL /\ self.source_prefix = <<>>
                       THEN "NA" ELSE inferred
         IN IF tournament.date = None
            THEN Raise(db, "AttributeError")  \* None.strftime, line 184
            ELSE LET ins == INSERT_tournaments(db, tournament.wbo_post_id,
                                tournament.name, tournament.date, region)
                 IN IF ins.raised # "none" THEN ins
                    ELSE Return(insert_placements(ins.db, ins.result[1],
                                    tournament.placements, 1),
                                ins.result)

\* The formats parse_date tries, scraper.py line 539-545.
formats == <<"%m/%d/%y", "%m/%d/%Y", "%B %d, %Y", "%b %d, %Y", "%Y-%m-%d">>

\* The date texts of the model: <<text, the format that reads it, the
\* datetime read>>.  Every other text is a ValueError under every format.
DATE_TEXTS ==
    << <<"11/01/26", "%m/%d/%y", datetime(2026, 11, 1)>>,
       <<"11/07/2026", "%m/%d/%Y", datetime(2026, 11, 7)>>,
       <<"June 3, 2022", "%B %d, %Y", datetime(2022, 6, 3)>>,
       <<"2024-10-13", "%Y-%m-%d", datetime(2024, 10, 13)>> >>

\* datetime.strptime(date_str, fmt); None stands for ValueError.
strptime(date_str, fmt) ==
    IF \E k \in DOMAIN DATE_TEXTS :
          DATE_TEXTS[k][1] = date_str /\ DATE_TEXTS[k][2] = fmt
    THEN DATE_TEXTS[CHOOSE k \in DOMAIN DATE_TEXTS :
                      DATE_TEXTS[k][1] = date_str /\ DATE_TEXTS[k][2] = fmt][3]
    ELSE None

\* The loop of parse_date, scraper.py line 547-565, from the k-th format on.
RECURSIVE parse_date_from(_, _, _)
parse_date_from(date_str, now_, k) ==
    IF k > Len(formats) THEN None
    ELSE LET read == strptime(date_str, formats[k])
             parsed == IF read[1] < 100
                       THEN datetime(read[1] + 2000, read[2], read[3])
                       ELSE read
         IN IF read = None THEN parse_date_from(date_str, now_, k + 1)
            ELSE IF parsed[1] < 2023
            THEN parse_date_from(date_str, now_, k + 1)
            ELSE IF later(parsed, now_)
            THEN parse_date_from(date_str, now_, k + 1)
            ELSE parsed

\* scraper.parse_date, line 536-565, at clock reading now_.
parse_date(date_str, now_) == parse_date_from(date_str, now_, 1)

\* str(n) for a one-digit n.
str(n) == <<<<"0">>, <<"1">>, <<"2">>, <<"3">>, <<"4">>,
            <<"5">>, <<"6">>, <<"7">>, <<"8">>, <<"9">>>>[n + 1]

\* post_id.startswith(prefix), scraper.py line 805.
startswith(s, prefix) ==
    /\ Len(s) >= Len(prefix)
    /\ SubSeq(s, 1, Len(prefix)) = prefix

\* A forum post as parse_post reads it: its id and the tournament sections
\* of its body, each with the name and date text of its header and the
\* placements found under it.
Section(name, date_str, placements_) ==
    [name |-> name, date_str |-> date_str, placements |-> placements_]

Post(id, sections) == [id |-> id, sections |-> sections]

\* The section loop of parse_post, scraper.py line 839-987, from the k-th
\* section on: the first tournament takes the post id, a later one
\* post_id_{tournament_index}; a tournament is kept, and the index advanced,
\* when it has placements.
RECURSIVE parse_sections(_, _, _, _, _)
parse_sections(post, now_, k, tournament_index, tournaments_) ==
    IF k > Len(post.sections) THEN tournaments_
    ELSE LET section == post.sections[k]
             unique_post_id == IF k = 1 THEN post.id
                               ELSE post.id \o <<"_">> \o str(tournament_index)
             current_tournament ==
                 Tournament(unique_post_id,
                            IF section.name \in {NULL, ""}
                            THEN "Unknown Tournament" ELSE section.name,
                            parse_date(section.date_str, now_),
                            NULL, section.placements)
         IN IF section.placements # <<>>
            THEN parse_sections(post, now_, k + 1, tournament_index + 1,
                                Append(tournaments_, current_tournament))
            ELSE parse_sections(post, now_, k + 1, tournament_index,
                                tournaments_)

\* A parse_post that gives every tournament of a post the post id.
wbo_parse_post_one_id(post, now_) ==
    IF ~startswith(post.id, <<"p", "i", "d">>) THEN <<>>
    ELSE LET parsed == parse_sections(post, now_, 1, 0, <<>>)
         IN [k \in DOMAIN parsed |->
                [parsed[k] EXCEPT !.wbo_post_id = post.id]]

\* scraper.parse_post, line 828-989, at clock reading now_.
wbo_parse_post(post, now_) ==
    IF ~startswith(post.id, <<"p", "i", "d">>) THEN <<>>
    ELSE parse_sections(post, now_, 1, 0, <<>>)

\* WBOScraper._convert_tournament, wbo.py line 168-200.
convert_tournament(src_tournament) ==
    Tournament(src_tournament.wbo_post_id, src_tournament.name,
               src_tournament.date, src_tournament.country,
               [k \in DOMAIN src_tournament.placements |->
                   Placement(src_tournament.placements[k].place,
                             src_tournament.placements[k].player_name,
                             src_tournament.placements[k].player_wbo_id,
                             src_tournament.placements[k].combos)])

\* `if result:` on a returned id, wbo.py line 152.
truthy(value) == value # None /\ value[1] # 0

\* The tournament loop of scrape, wbo.py line 143-158, from the k-th
\* tournament of a post on.  S is the run so far: the store, processed_ids,
\* the two counters and the exception in flight.
RECURSIVE scrape_tournaments(_, _, _, _)
scrape_tournaments(self, S, parsed, k) ==
    IF k > Len(parsed) \/ S.raised # "none" THEN S
    ELSE LET tournament == parsed[k]
             r == insert_tournament(self, S.db, convert_tournament(tournament))
         IN IF tournament.wbo_post_id \in S.processed_ids
            THEN scrape_tournaments(self,
                     [S EXCEPT !.tournaments_skipped = @ + 1], parsed, k + 1)
            ELSE IF r.raised # "none"
            THEN [S EXCEPT !.db = r.db, !.raised = r.raised]
            ELSE IF truthy(r.result)
            THEN scrape_tournaments(self,
                     [S EXCEPT !.db = r.db,
                               !.tournaments_added = @ + 1,
                               !.processed_ids = @ \cup {tournament.wbo_post_id}],
                     parsed, k + 1)
            ELSE scrape_tournaments(self,
                     [S EXCEPT !.db = r.db, !.tournaments_skipped = @ + 1],
                     parsed, k + 1)

\* The post loop of scrape, wbo.py line 132-158, from the k-th post of a
\* page on.
RECURSIVE scrape_posts(_, _, _, _, _)
scrape_posts(self, S, posts, now_, k) ==
    IF k > Len(posts) \/ S.raised # "none" THEN S
    ELSE IF posts[k].id \in S.processed_ids
    THEN scrape_posts(self, [S EXCEPT !.tournaments_skipped = @ + 1],
                      posts, now_, k + 1)
    ELSE scrape_posts(self,
             scrape_tournaments(self, S, wbo_parse_post(posts[k], now_), 1),
             posts, now_, k + 1)

\* A page loop in which a page that raises empties the store and ends the
\* run.
RECURSIVE scrape_pages_rollback(_, _, _, _, _)
scrape_pages_rollback(self, S, pages, now_, k) ==
    IF k > Len(pages) THEN S
    ELSE IF ~pages[k].markup
    THEN [S EXCEPT !.db.tournaments = {}, !.db.placements = {}]
    ELSE scrape_pages_rollback(self,
             [scrape_posts(self, S, pages[k].posts, now_, 1)
                EXCEPT !.raised = "none"],
             pages, now_, k + 1)

\* The page loop of scrape, wbo.py line 125-164, from the k-th page (in
\* page-number order) on.  A page whose value is not markup raises in
\* BeautifulSoup; every exception ends the page and is printed.
RECURSIVE scrape_pages(_, _, _, _, _)
scrape_pages(self, S, pages, now_, k) ==
    IF k > Len(pages) THEN S
    ELSE scrape_pages(self,
             IF ~pages[k].markup THEN S
             ELSE [scrape_posts(self, S, pages[k].posts, now_, 1)
                     EXCEPT !.raised = "none"],
             pages, now_, k + 1)

\* WBOScraper.scrape, wbo.py line 84-166, on the content of wbo_pages.json.
scrape(self, db, data, now_) ==
    IF ~data.exists THEN Return(db, <<0, 0>>)
    ELSE LET S == scrape_pages(self,
                      [db |-> db,
                       processed_ids |-> get_processed_ids(self, db.tournaments),
                       tournaments_added |-> 0,
                       tournaments_skipped |-> 0,
                       raised |-> "none"],
                      data.pages, now_, 1)
         IN Return(S.db, <<S.tournaments_added, S.tournaments_skipped>>)

\* clear_source_data of the three scrapers (wbo.py line 54-82, jp.py
\* line 222-240, de.py line 194-212): the count, then the placements of the
\* source's tournaments, then the tournaments.
clear_source_data(self, db) ==
    LET doomed == source_rows(self, db.tournaments)
    IN Return([db EXCEPT
                 !.placements = {p \in @ :
                     p.tournament_id \notin {r.id : r \in doomed}},
                 !.tournaments = @ \ doomed],
              <<Cardinality(doomed)>>)

\* import_championships.clear_championship_data, line 187-203.
clear_championship_data(db) ==
    LET doomed == {r \in db.tournaments : has_prefix(r.wbo_post_id, <<"c", "h", "a", "m", "p", "_">>)}
    IN Return([db EXCEPT
                 !.placements = {p \in @ :
                     p.tournament_id \notin {r.id : r \in doomed}},
                 !.tournaments = @ \ doomed],
              <<Cardinality(doomed)>>)

\* The placements loop of import_championships, line 257-303, from the k-th
\* placement on.  S is [db, placements_added].
RECURSIVE import_placements(_, _, _, _)
import_placements(S, db_tournament_id, placements_, k) ==
    IF k > Len(placements_) THEN S
    ELSE LET placement == placements_[k]
             ins == INSERT_placements(S.db, db_tournament_id,
                        Placement(placement.place, placement.player, NULL,
                                  placement.combos),
                        [i \in Slots |->
                            [slots_of(placement.combos)[i]
                               EXCEPT !.assist = NULL, !.stage = NULL]])
         IN IF placement.combos = <<>>
            THEN import_placements(S, db_tournament_id, placements_, k + 1)
            ELSE IF ins.raised # "none"
            THEN import_placements([S EXCEPT !.db = ins.db],
                                   db_tournament_id, placements_, k + 1)
            ELSE import_placements(
                     [db |-> ins.db,
                      placements_added |-> S.placements_added + 1],
                     db_tournament_id, placements_, k + 1)

\* The tournament loop of import_championships, line 216-305, from the k-th
\* tournament of the data file on.  S is [db, tournaments_added,
\* placements_added].
RECURSIVE import_tournaments(_, _, _)
import_tournaments(S, entries, k) ==
    IF k > Len(entries) THEN S
    ELSE LET tournament == entries[k]
             tournament_id_str == <<"c", "h", "a", "m", "p", "_">> \o tournament.id
             date == strptime(tournament.date, "%Y-%m-%d")
             ins == INSERT_tournaments(S.db, tournament_id_str,
                        tournament.name, date,
                        IF "region" \in DOMAIN tournament
                        THEN tournament.region ELSE "JAPAN")
             P == import_placements(
                      [db |-> ins.db, placements_added |-> S.placements_added],
                      ins.result[1], tournament.placements, 1)
         IN IF existing(S.db.tournaments, tournament_id_str) # {}
            THEN import_tournaments(S, entries, k + 1)
            ELSE IF date = None
            THEN import_tournaments(S, entries, k + 1)
            ELSE IF ins.raised # "none"
            THEN [S EXCEPT !.db = ins.db, !.raised = ins.raised]
            ELSE import_tournaments(
                     [db |-> P.db,
                      tournaments_added |-> S.tournaments_added + 1,
                      placements_added |-> P.placements_added,
                      raised |-> "none"],
                     entries, k + 1)

\* import_championships.import_championships, line 206-307.
import_championships(db, data) ==
    LET S == import_tournaments(
                 [db |-> db, tournaments_added |-> 0, placements_added |-> 0,
                  raised |-> "none"],
                 data.tournaments, 1)
    IN IF S.raised # "none" THEN Raise(S.db, S.raised)
       ELSE Return(S.db, <<S.tournaments_added, S.placements_added>>)

(***************************************************************************)
(* Part 3, continued.  The calls made on the store                         *)
(***************************************************************************)

\* Number of ingestion calls that are followed.
MaxCalls == 3

\* Number of days the clock may advance.
MaxTicks == 2

\* The day the first call is made.
StartDate == datetime(2026, 11, 5)

\* Combos, as parse_combo or a data file gives them.
ComboA == Slot("Wizard Rod", "9-60", "Ball", NULL, NULL, NULL)

ComboB == Slot("Blast", "1-60", "Hexa", "Wheel", "Pegasus", "first")

\* Placement lists: two places; one player without combos; the same place
\* twice; one player with four combos.
TopTwo ==
    <<Placement(1, "Ann", NULL, <<ComboA>>),
      Placement(2, "Bob", NULL, <<ComboA, ComboB>>)>>

NoCombos == <<Placement(1, "Ann", NULL, <<>>)>>

SamePlace ==
    <<Placement(1, "Ann", NULL, <<ComboA>>),
      Placement(1, "Bob", NULL, <<ComboB>>)>>

FourCombos == <<Placement(1, "Ann", "42", <<ComboA, ComboB, ComboB, ComboA>>)>>

\* The (scraper, tournament) pairs insert_tournament is called with: a
\* complete tournament, the same id with other content, tournaments without
\* date (with and without name and placements), without placements, with
\* only combo-less placements, and one per source.
InsertInputs ==
    { <<WBOScraper, Tournament(<<"p", "i", "d", "1">>, "Cup A", datetime(2026, 11, 1),
                               NULL, TopTwo)>>,
      <<WBOScraper, Tournament(<<"p", "i", "d", "1">>, "Cup A again", datetime(2026, 11, 2),
                               "Canada", SamePlace)>>,
      <<WBOScraper, Tournament(<<"p", "i", "d", "2">>, NULL, None, "Japan", FourCombos)>>,
      <<WBOScraper, Tournament(<<"p", "i", "d", "1">>, "Cup A", None, NULL, <<>>)>>,
      <<JPScraper, Tournament(<<"o", "k", "u", "y", "a", "m", "a", "_", "a">>, "Osaka Cup",
                              datetime(2026, 11, 1), "Japan", NoCombos)>>,
      <<JPScraper, Tournament(<<"o", "k", "u", "y", "a", "m", "a", "_", "a">>, "Osaka Cup",
                              datetime(2026, 11, 1), "Japan", <<>>)>>,
      <<DEScraper, Tournament(<<"b", "l", "g", "_", "a">>, "BLG Cup", datetime(2026, 11, 2),
                              "Germany", FourCombos)>> }

\* Contents of data/championships.json: one tournament with a combo-less
\* placement and a placement whose combo names no blade; a file with a
\* repeated id, an entry without region and an
\* entry whose date is not %Y-%m-%d.
ChampionshipData ==
    { [tournaments |->
         << [id |-> <<"1">>, name |-> "World Championship",
             date |-> "2024-10-13", region |-> "JAPAN",
             placements |-> << [place |-> 1, player |-> "Kei",
                                combos |-> <<ComboA>>],
                               [place |-> 2, player |-> "Rio",
                                combos |-> <<>>],
                               [place |-> 3, player |-> "Sae",
                                combos |-> <<Slot(NULL, "9-60", "Ball",
                                                  NULL, NULL, NULL)>>] >>] >>],
      [tournaments |->
         << [id |-> <<"2">>, name |-> "Asia Championship",
             date |-> "2024-10-13",
             placements |-> << [place |-> 1, player |-> "Kei",
                                combos |-> <<ComboA, ComboB>>],
                               [place |-> 1, player |-> "Rio",
                                combos |-> <<ComboB>>] >>],
            [id |-> <<"2">>, name |-> "Asia Championship (bis)",
             date |-> "2024-10-13", region |-> "ASIA",
             placements |-> << [place |-> 1, player |-> "Kei",
                                combos |-> <<ComboA>>] >>],
            [id |-> <<"3">>, name |-> "Europe Championship",
             date |-> "13.10.2024", region |-> "EU",
             placements |-> << [place |-> 1, player |-> "Lea",
                                combos |-> <<ComboA>>] >>] >>] }

\* A value of wbo_pages.json: markup (a list of posts) or not.
Page(markup, posts) == [markup |-> markup, posts |-> posts]

\* Contents of data/wbo_pages.json, pages in page-number order: a file with
\* a post dated after StartDate, a page that is not markup, a post of three
\* sections, a repeated post and an element that is not a post; a file with
\* one two-tournament post; a file with posts whose first or middle
\* sections have no placements and a post of three tournaments; and no file.
Datasets ==
    { [exists |-> TRUE,
       pages |->
         << Page(TRUE,
                 << Post(<<"p", "i", "d", "1">>, <<Section("Cup A", "11/01/26", TopTwo)>>),
                    Post(<<"p", "i", "d", "2">>, <<Section("Cup B", "11/07/2026", TopTwo)>>) >>),
            Page(FALSE, <<>>),
            Page(TRUE,
                 << Post(<<"p", "i", "d", "3">>, <<Section(NULL, "11/01/26", SamePlace),
                                    Section("Side", "TBD", <<>>),
                                    Section("Old", "June 3, 2022", TopTwo)>>),
                    Post(<<"p", "i", "d", "1">>, <<Section("Cup A", "11/01/26", TopTwo)>>),
                    Post(<<"p", "o", "s", "t", "9">>, <<Section("Cup C", "11/01/26", TopTwo)>>) >>) >>],
      [exists |-> TRUE,
       pages |->
         << Page(TRUE,
                 << Post(<<"p", "i", "d", "1">>, <<Section("Cup A", "11/01/26", TopTwo),
                                    Section("Cup A2", "11/01/26",
                                            FourCombos)>>) >>) >>],
      [exists |-> TRUE,
       pages |->
         << Page(TRUE,
                 << Post(<<"p", "i", "d", "4">>, <<Section("Intro", "TBD", <<>>),
                                    Section("Cup D", "11/01/26", TopTwo),
                                    Section("Break", "TBD", <<>>),
                                    Section("Cup E", "11/01/26", SamePlace),
                                    Section("Cup F", "11/01/26", TopTwo)>>),
                    Post(<<"p", "i", "d", "5">>, <<Section("Cup G", "11/01/26", TopTwo),
                                    Section("Cup H", "11/01/26", TopTwo),
                                    Section("Cup I", "11/01/26", SamePlace)>>),
                    Post(<<"p", "i", "d", "6">>, <<Section("Notes", "TBD", <<>>)>>) >>) >>],
      [exists |-> FALSE, pages |-> <<>>] }

\* The store, the returned value and the call record after a call.
returns(r, call) ==
    /\ tournaments' = r.db.tournaments
    /\ placements' = r.db.placements
    /\ seq_tournaments' = r.db.seq_tournaments
    /\ seq_placements' = r.db.seq_placements
    /\ result' = r.result
    /\ raised' = r.raised
    /\ last_call' = call
    /\ calls' = calls + 1
    /\ UNCHANGED <<seq_burn, now, pages_data>>
    /\ UNCHANGED <<vars_lock, vars_norm, vars_parse, vars_api>>

\* A scraper's insert_tournament(conn, tournament).
run_insert_tournament ==
    /\ calls < MaxCalls
    /\ \E input \in InsertInputs :
          returns(insert_tournament(input[1], Store, input[2]),
                  [op |-> "insert_tournament", self |-> input[1].source_name,
                   arg |-> input[2]])
    /\ UNCHANGED scraped

\* WBOScraper().scrape(conn) on wbo_pages.json.
run_scrape ==
    /\ calls < MaxCalls
    /\ returns(scrape(WBOScraper, Store, pages_data, now),
               [op |-> "scrape", self |-> "WBO"])
    /\ scraped' = TRUE

\* A scraper's clear_source_data(conn).
run_clear_source_data ==
    /\ calls < MaxCalls
    /\ \E self \in {WBOScraper, JPScraper, DEScraper} :
          returns(clear_source_data(self, Store),
                  [op |-> "clear_source_data", self |-> self.source_name])
    /\ scraped' = FALSE

\* import_championships(conn, data) on a data file.
run_import_championships ==
    /\ calls < MaxCalls
    /\ \E data \in ChampionshipData :
          returns(import_championships(Store, data),
                  [op |-> "import_championships", self |-> "champ",
                   arg |-> data])
    /\ UNCHANGED scraped

\* clear_championship_data(conn).
run_clear_championship_data ==
    /\ calls < MaxCalls
    /\ returns(clear_championship_data(Store),
               [op |-> "clear_championship_data", self |-> "champ"])
    /\ scraped' = FALSE

\* A day passes between two calls.
clock_tick ==
    /\ now[3] < StartDate[3] + MaxTicks
    /\ now' = datetime(now[1], now[2], now[3] + 1)
    /\ UNCHANGED <<vars_store, vars_lock, vars_norm, vars_parse, vars_api>>
    /\ UNCHANGED <<seq_tournaments, seq_placements, seq_burn, pages_data,
                   last_call, result, raised, scraped, calls>>


(***************************************************************************)
(* Specifications                                                          *)
(***************************************************************************)

\* A store with no rows and no normalize_data run.
InitStoreEmpty ==
    /\ tournaments = {}
    /\ placements = {}
    /\ placements_before = {}
    /\ norm_runs = 0
    /\ fixed_count = 0
    /\ seq_tournaments = 1
    /\ seq_placements = 1

\* No ingestion call made: the variables of Part 3 at rest.
IngestIdle ==
    /\ seq_burn = 0
    /\ now = StartDate
    /\ pages_data = [exists |-> FALSE, pages |-> <<>>]
    /\ last_call = [op |-> "none"]
    /\ result = None
    /\ raised = "none"
    /\ scraped = FALSE
    /\ calls = 0

\* No parsing function called: the variables of Part 4 at rest.
ParseIdle ==
    /\ set_order = "listed"
    /\ raw_text = ""
    /\ applied = "none"
    /\ returned = None

\* No request made: the variables of Part 5 at rest.
ApiIdle ==
    /\ server = "docker"
    /\ scrape_status = [running |-> FALSE, last_run |-> None,
                        last_result |-> None, last_error |-> None]
    /\ handler_pc = "idle"
    /\ request = None
    /\ started_message = None
    /\ response = None
    /\ thread_pc = <<>>
    /\ thread_sources = <<>>
    /\ thread_outcome = <<>>

InitLockSpec ==
    InitLock /\ InitStoreEmpty /\ IngestIdle /\ ParseIdle /\ ApiIdle

\* The lock protocol of concurrent refresh_all processes.
SpecLock == InitLockSpec /\ [][NextLock]_vars

Range(table, j) == {table[k][j] : k \in 1..Len(table)}

\* Every blade name the vocabulary speaks of, and one it does not know.
BladeDomain ==
    Range(BLADE_NORMALIZATIONS, 1) \cup Range(BLADE_NORMALIZATIONS, 2)
    \cup Range(CX_BLADE_COMPONENTS, 1) \cup {"Unknown Blade"}

BitDomain ==
    Range(BIT_NORMALIZATIONS, 1) \cup Range(BIT_NORMALIZATIONS, 2) \cup {"Flat"}

RatchetDomain ==
    Range(RATCHET_NORMALIZATIONS, 1) \cup Range(RATCHET_NORMALIZATIONS, 2)
    \cup {"3-60"}

\* Lock chip columns: empty, a lock chip, names that are main blades.
LockChipSamples == {NULL, "Pegasus", "Blast", "Slash"}

\* Contents of a slot: every blade name, every composite name with every
\* lock chip sample, every bit, every ratchet, every name as assist.
SlotSamples ==
    {Slot(b, "3-60", "Flat", NULL, NULL, NULL) : b \in BladeDomain}
    \cup {Slot(b, "3-60", "Flat", NULL, l, NULL) :
            b \in Range(CX_BLADE_COMPONENTS, 1) \cup {"Blast", "Might Blast"},
            l \in LockChipSamples}
    \cup {Slot("Wizard Rod", "3-60", bt, NULL, NULL, "final") : bt \in BitDomain}
    \cup {Slot("Wizard Rod", r, "Flat", NULL, NULL, "final") : r \in RatchetDomain}
    \cup {Slot("Blast", "3-60", "Flat", a, "Pegasus", NULL) :
            a \in BladeDomain \cup {"Jaggy"}}

SlotX == Slot("Pegasus Blast", "5-50", "Hex", "Hover", NULL, "first")

SlotY == Slot("Might Blast", "9-60", "FB", NULL, "Blast", NULL)

SlotZ == Slot("Blast", "4-50", "Hexa", NULL, "Valkyrie", "both")

\* Contents of the first slot of the first row of a table of several slots
\* or rows.
HeadSamples == {SlotX, SlotY, SlotZ, Slot("Wizard Rod", "1-60", "Hexa", NULL, NULL, NULL)}

\* Contents of the second and third slots of the first row.
TailSamples == {<<EmptySlot, EmptySlot>>, <<SlotX, EmptySlot>>, <<SlotZ, SlotY>>}

\* The slots of the further rows of the table.
ExtraSlots == {<<SlotX, EmptySlot, EmptySlot>>, <<SlotZ, SlotY, EmptySlot>>}

\* Number of rows of the placements table that normalize_data is run on.
NumPlacementRows == 2

NormTournaments ==
    {TournamentRow(1, <<"p", "i", "d", "1">>, "Tournament A",
                   datetime(2024, 1, 1), "NA")}

\* The placements tables normalize_data is run on: every slot sample alone
\* in a one-row table, and tables of up to NumPlacementRows rows with up to
\* three slots filled.
InitialTables ==
    { {PlacementRow(1, 1, 1, "Player 1", <<s, EmptySlot, EmptySlot>>)} :
        s \in SlotSamples }
    \cup
    { {PlacementRow(1, 1, 1, "Player 1", <<s, t[1], t[2]>>)}
      \cup {PlacementRow(k, 1, k, "Player", e[k]) : k \in DOMAIN e}
      : s \in HeadSamples, t \in TailSamples,
        e \in UNION {[2..n -> ExtraSlots] : n \in 1..NumPlacementRows} }

InitNorm ==
    /\ InitLock
    /\ tournaments = NormTournaments
    /\ placements \in InitialTables
    /\ placements_before = placements
    /\ norm_runs = 0
    /\ fixed_count = 0
    /\ seq_tournaments = 2
    /\ seq_placements = NumPlacementRows + 1
    /\ IngestIdle
    /\ ParseIdle
    /\ ApiIdle

NextNorm == run_normalize_data

\* Successive runs of normalize_data on an arbitrary placements table.
SpecNorm == InitNorm /\ [][NextNorm]_vars

\* The store after init_schema (db.py line 475-547), a data file, and no
\* call made yet.
InitIngest ==
    /\ InitLock
    /\ tournaments = {}
    /\ placements = {}
    /\ placements_before = {}
    /\ norm_runs = 0
    /\ fixed_count = 0
    /\ seq_tournaments = 1
    /\ seq_placements = 1
    /\ seq_burn \in {0, 1}
    /\ now = StartDate
    /\ pages_data \in Datasets
    /\ last_call = [op |-> "none"]
    /\ result = None
    /\ raised = "none"
    /\ scraped = FALSE
    /\ calls = 0
    /\ ParseIdle
    /\ ApiIdle

NextIngest ==
    \/ run_insert_tournament
    \/ run_scrape
    \/ run_clear_source_data
    \/ run_import_championships
    \/ run_clear_championship_data
    \/ clock_tick

\* Any sequence of ingestion calls on one store, days passing in between.
SpecIngest == InitIngest /\ [][NextIngest]_vars

(***************************************************************************)
(* Part 4.  parse_combo, normalize_blade, parse_cx_blade and               *)
(*          validate_and_fix_blade                                         *)
(*                                                                         *)
(* A Python str is a TLA+ string; Len, Head, Tail, SubSeq and \o act on    *)
(* its characters.  A str that may be None is the string or NULL.  The     *)
(* alphabet of the texts is ASCII: letters, digits, the space and          *)
(* punctuation.                                                            *)
(***************************************************************************)

ascii_uppercase == "ABCDEFGHIJKLMNOPQRSTUVWXYZ"

ascii_lowercase == "abcdefghijklmnopqrstuvwxyz"

digits == "0123456789"

\* The characters of a string, as a set.
chars(s) == {SubSeq(s, i, i) : i \in 1..Len(s)}

\* c.isspace(): the space is the only whitespace of the alphabet.
isspace(c) == c = " "

isdigit(c) == c \in chars(digits)

\* [A-Za-z]
isalpha(c) == c \in chars(ascii_uppercase) \cup chars(ascii_lowercase)

\* The lowercase of each uppercase letter, and the reverse.
lowercase_of ==
    [c \in chars(ascii_uppercase) |->
        SubSeq(ascii_lowercase,
               CHOOSE i \in 1..26 : SubSeq(ascii_uppercase, i, i) = c,
               CHOOSE i \in 1..26 : SubSeq(ascii_uppercase, i, i) = c)]

uppercase_of ==
    [c \in chars(ascii_lowercase) |->
        SubSeq(ascii_uppercase,
               CHOOSE i \in 1..26 : SubSeq(ascii_lowercase, i, i) = c,
               CHOOSE i \in 1..26 : SubSeq(ascii_lowercase, i, i) = c)]

\* s.lower()
RECURSIVE lower(_)
lower(s) ==
    IF s = "" THEN ""
    ELSE (IF Head(s) \in DOMAIN lowercase_of THEN lowercase_of[Head(s)]
          ELSE Head(s)) \o lower(Tail(s))

\* s.isupper(): a cased character exists and none is lowercase.
isupper(s) ==
    /\ \E i \in 1..Len(s) : SubSeq(s, i, i) \in DOMAIN lowercase_of
    /\ \A i \in 1..Len(s) : SubSeq(s, i, i) \notin DOMAIN uppercase_of

\* s.title(): the first letter of every run of letters in uppercase, the
\* other letters of the run in lowercase.
RECURSIVE title_from(_, _)
title_from(s, previous_is_cased) ==
    IF s = "" THEN ""
    ELSE LET c == Head(s)
         IN (IF c \in DOMAIN uppercase_of
             THEN (IF previous_is_cased THEN c ELSE uppercase_of[c])
             ELSE IF c \in DOMAIN lowercase_of
                  THEN (IF previous_is_cased THEN lowercase_of[c] ELSE c)
                  ELSE c)
            \o title_from(Tail(s), isalpha(c))

title(s) == title_from(s, FALSE)

\* s.lstrip(characters); s.lstrip() when characters is {" "}.
RECURSIVE lstrip(_, _)
lstrip(s, characters) ==
    IF s # "" /\ Head(s) \in characters THEN lstrip(Tail(s), characters)
    ELSE s

RECURSIVE rstrip(_)
rstrip(s) ==
    IF s # "" /\ isspace(SubSeq(s, Len(s), Len(s)))
    THEN rstrip(SubSeq(s, 1, Len(s) - 1))
    ELSE s

\* s.strip()
strip(s) == rstrip(lstrip(s, {" "}))

\* s.replace(" ", "")
RECURSIVE replace_spaces(_)
replace_spaces(s) ==
    IF s = "" THEN ""
    ELSE (IF Head(s) = " " THEN "" ELSE Head(s)) \o replace_spaces(Tail(s))

\* The index of the first character of s at or after p that is not in
\* characters, Len(s) + 1 if there is none.
RECURSIVE skip(_, _, _)
skip(s, p, characters) ==
    IF p <= Len(s) /\ SubSeq(s, p, p) \in characters
    THEN skip(s, p + 1, characters)
    ELSE p

\* The index of the first character of s at or after p that is in
\* characters, Len(s) + 1 if there is none.
RECURSIVE find(_, _, _)
find(s, p, characters) ==
    IF p <= Len(s) /\ SubSeq(s, p, p) \notin characters
    THEN find(s, p + 1, characters)
    ELSE p

\* s.split(): the words between runs of whitespace.
RECURSIVE split_from(_, _)
split_from(s, p) ==
    LET start == skip(s, p, {" "})
        end == find(s, start, {" "})
    IN IF start > Len(s) THEN <<>>
       ELSE <<SubSeq(s, start, end - 1)>> \o split_from(s, end)

split(s) == split_from(s, 1)

\* " ".join(words)
RECURSIVE join(_)
join(words) ==
    IF words = <<>> THEN ""
    ELSE IF Len(words) = 1 THEN words[1]
    ELSE words[1] \o " " \o join(Tail(words))

\* sub in s
contains(s, sub) ==
    \E i \in 1..(Len(s) - Len(sub) + 1) : SubSeq(s, i, i + Len(sub) - 1) = sub

\* table.get(key, default) on a table of <<key, value>> pairs.
get(table, key, default) ==
    IF \E k \in 1..Len(table) : table[k][1] = key
    THEN table[CHOOSE k \in 1..Len(table) : table[k][1] = key][2]
    ELSE default

\* key in table
has_key(table, key) == \E k \in 1..Len(table) : table[k][1] = key

\* db.py line 185: the main blade of each lowercase main blade name.
_CX_MAIN_BLADES_LOWER ==
    [k \in {lower(b) : b \in CX_MAIN_BLADES} |->
        CHOOSE b \in CX_MAIN_BLADES : lower(b) = k]

\* A variant of _CX_LOCK_CHIPS_LOWER that holds the lowercase names.
_CX_LOCK_CHIPS_LOWER_keys == [k \in {lower(c) : c \in CX_LOCK_CHIPS} |-> k]

\* db.py line 186: the lock chip of each lowercase lock chip name.
_CX_LOCK_CHIPS_LOWER ==
    [k \in {lower(c) : c \in CX_LOCK_CHIPS} |->
        CHOOSE c \in CX_LOCK_CHIPS : lower(c) = k]

\* CX_BLADE_COMPONENTS[full_name], db.py line 207: (lock_chip, main_blade).
components(full_name) ==
    LET k == CHOOSE k \in 1..Len(CX_BLADE_COMPONENTS) :
                 CX_BLADE_COMPONENTS[k][1] = full_name
    IN <<CX_BLADE_COMPONENTS[k][2], CX_BLADE_COMPONENTS[k][3]>>

\* full_name.lower() of every entry, db.py line 223.
full_name_lower ==
    [k \in 1..Len(CX_BLADE_COMPONENTS) |-> lower(CX_BLADE_COMPONENTS[k][1])]

\* A variant of step 5 that finds no concatenation.
concat_patterns_none(name_lower) == {}

\* Step 5 of parse_cx_blade, db.py line 254-267: the (lock_chip,
\* main_blade) pairs one of whose two concatenations starts name_lower.  No
\* concatenation is the start of another one, so the pair returned does not
\* depend on the order in which the two dicts are iterated.
concat_patterns(name_lower) ==
    {<<_CX_LOCK_CHIPS_LOWER[lock_chip_lower],
       _CX_MAIN_BLADES_LOWER[main_blade_lower]>> :
       <<lock_chip_lower, main_blade_lower>> \in
          {pair \in (DOMAIN _CX_LOCK_CHIPS_LOWER)
                    \X (DOMAIN _CX_MAIN_BLADES_LOWER) :
              \/ startswith(name_lower, pair[1] \o pair[2])
              \/ startswith(name_lower, pair[2] \o pair[1])}}

\* Steps 3 to 6 of parse_cx_blade, db.py line 220-270.
parse_cx_normalized(blade_name, normalized) ==
    LET normalized_lower == lower(normalized)
        parts == split(normalized)
        first_lower == lower(parts[1])
        second_lower == lower(parts[2])
        name_lower == replace_spaces(normalized_lower)
    IN IF \E k \in DOMAIN full_name_lower :
             full_name_lower[k] = normalized_lower
       THEN LET k == CHOOSE k \in DOMAIN full_name_lower :
                        full_name_lower[k] = normalized_lower
            IN <<CX_BLADE_COMPONENTS[k][2], CX_BLADE_COMPONENTS[k][3]>>
       ELSE IF /\ Len(parts) >= 2
               /\ first_lower \in DOMAIN _CX_LOCK_CHIPS_LOWER
               /\ second_lower \in DOMAIN _CX_MAIN_BLADES_LOWER
       THEN <<_CX_LOCK_CHIPS_LOWER[first_lower],
              _CX_MAIN_BLADES_LOWER[second_lower]>>
       ELSE IF /\ Len(parts) >= 2
               /\ first_lower \in DOMAIN _CX_MAIN_BLADES_LOWER
               /\ second_lower \in DOMAIN _CX_LOCK_CHIPS_LOWER
       THEN <<_CX_LOCK_CHIPS_LOWER[second_lower],
              _CX_MAIN_BLADES_LOWER[first_lower]>>
       ELSE IF concat_patterns(name_lower) # {}
       THEN CHOOSE pair \in concat_patterns(name_lower) : TRUE
       ELSE <<NULL, blade_name>>

\* parse_cx_blade, db.py line 189-270: (lock_chip, main_blade), lock_chip
\* being NULL when blade_name is not a known CX blade.
parse_cx_blade(blade_name) ==
    IF has_key(CX_BLADE_COMPONENTS, blade_name) THEN components(blade_name)
    ELSE LET stripped == strip(blade_name)
             n == Len(stripped)
             has_suffix == /\ n > 2
                           /\ SubSeq(stripped, n - 1, n - 1) = " "
                           /\ SubSeq(stripped, n, n) \in chars("WSAFHTJ")
             suffix_stripped == SubSeq(stripped, 1, n - 2)
         IN IF has_suffix /\ has_key(CX_BLADE_COMPONENTS, suffix_stripped)
            THEN components(suffix_stripped)
            ELSE parse_cx_normalized(
                     blade_name,
                     IF has_suffix THEN suffix_stripped ELSE stripped)

\* A variant of is_invalid_two_main_blades for which one main blade is
\* enough.
is_invalid_two_main_blades_either(blade_name) ==
    LET parts == split(blade_name)
    IN /\ Len(parts) = 2
       /\ \/ lower(parts[1]) \in DOMAIN _CX_MAIN_BLADES_LOWER
          \/ lower(parts[2]) \in DOMAIN _CX_MAIN_BLADES_LOWER

\* is_invalid_two_main_blades, db.py line 281-301.
is_invalid_two_main_blades(blade_name) ==
    LET parts == split(blade_name)
    IN /\ Len(parts) = 2
       /\ lower(parts[1]) \in DOMAIN _CX_MAIN_BLADES_LOWER
       /\ lower(parts[2]) \in DOMAIN _CX_MAIN_BLADES_LOWER

\* db.py line 328-339: <<main blade, lock chip>>.
default_lock_chips == <<
    <<"Blast", "Pegasus">>, <<"Might", "Emperor">>, <<"Brave", "Dran">>,
    <<"Arc", "Wizard">>, <<"Reaper", "Hells">>, <<"Brush", "Fox">>,
    <<"Eclipse", "Sol">>, <<"Hunt", "Wolf">>, <<"Flare", "Phoenix">>,
    <<"Volt", "Valkyrie">> >>

\* validate_and_fix_blade, db.py line 304-345.
validate_and_fix_blade(blade_name) ==
    IF has_key(BLADE_NORMALIZATIONS, blade_name)
    THEN get(BLADE_NORMALIZATIONS, blade_name, blade_name)
    ELSE IF is_invalid_two_main_blades(blade_name)
    THEN LET parts == split(blade_name)
             first_lower == lower(parts[1])
             main_blade == IF first_lower \in DOMAIN _CX_MAIN_BLADES_LOWER
                           THEN _CX_MAIN_BLADES_LOWER[first_lower]
                           ELSE parts[1]
             lock_chip == get(default_lock_chips, main_blade, "")
         IN IF lock_chip # "" THEN lock_chip \o " " \o main_blade
            ELSE main_blade
    ELSE blade_name

\* CANONICAL_BLADES, scraper.py line 48-132, in the order of the listing (a
\* name listed twice is kept once).
CANONICAL_BLADES_listed == <<
    "Dran Sword", "Hells Scythe", "Knight Shield", "Knight Lance",
    "Wizard Arrow", "Shark Edge", "Viper Tail", "Dran Dagger",
    "Hells Hammer", "Leon Claw", "Dran Buster", "Hells Chain", "Rhino Horn",
    "Black Shell", "Tyranno Beat", "Unicorn Sting", "Phoenix Wing",
    "Wizard Rod", "Aero Pegasus", "Silver Wolf", "Shark Slayer",
    "Samurai Saber", "Weiss Tiger", "Talon Ptera", "Spike Cadeus",
    "Roar Tyranno", "Cobalt Dragoon", "Cobalt Drake", "Steel Samurai",
    "Burn Wyvern", "Prominence Phoenix", "Whale Wave", "Knight Mail",
    "Leon Crest", "Wyvern Gale", "Phoenix Feather", "Tusk Mammoth",
    "Phoenix Rudder", "Dranzer Spiral", "Pegasus Blast", "Wizard Arc",
    "Fox Brush", "Hells Blast", "Valkyrie Volt", "Blast Emperor",
    "Emperor Brave", "Dran Brave", "Might Blast", "Hover Wyvern",
    "Shark Scale", "Meteor Dragoon", "Impact Drake", "Rock Golem",
    "Samurai Calibur", "Crimson Garuda", "Scorpio Spear", "Shinobi Shadow",
    "Ghost Circle", "Bite Croc", "Keel Shark", "Knife Shinobi",
    "Shelter Drake", "Sphinx Cowl", "Tide Whale", "Tricera Press",
    "Bear Scratch", "Chain Incendio", "Clock Mirage", "Dragoon Storm",
    "Driger Slash", "Gill Shark", "Mummy Curse", "Scythe Incendio",
    "Sting Unicorn", "Wand Wizard", "Xeno Xcalibur", "Cerberus Blast" >>

\* The order in which "for blade in CANONICAL_BLADES" (scraper.py line 137)
\* visits the set.  It depends on the hash seed of the process; the listed
\* order and its reverse put every two names in both relative orders.
iteration(order) ==
    IF order = "listed" THEN CANONICAL_BLADES_listed
    ELSE [i \in 1..Len(CANONICAL_BLADES_listed) |->
            CANONICAL_BLADES_listed[Len(CANONICAL_BLADES_listed) + 1 - i]]

SetOrders == {"listed", "reversed"}

\* The keys that the loop of scraper.py line 137-148 sets for one blade.
keys_of(blade) ==
    LET words == split(blade)
        swapped == words[2] \o " " \o words[1]
    IN {replace_spaces(lower(blade))}
       \cup (IF Len(words) = 2
             THEN {replace_spaces(lower(swapped)), lower(swapped)}
             ELSE {})

\* The blades in each order of visit, and the keys of each blade.
visit == [order \in SetOrders |-> iteration(order)]

blade_keys ==
    [blade \in {CANONICAL_BLADES_listed[i] :
                   i \in 1..Len(CANONICAL_BLADES_listed)} |-> keys_of(blade)]

\* scraper.py line 152-155.
typos == <<
    <<"hellscythe", "Hells Scythe">>,
    <<"dranzerspiral", "Dranzer Spiral">> >>

\* BLADE_NORMALIZATION as scraper.py line 135-156 builds it when the set is
\* visited in the given order: a key holds the blade that set it last.
build_normalization(order) ==
    [key \in UNION {blade_keys[blade] : blade \in DOMAIN blade_keys}
                \cup {typos[k][1] : k \in 1..Len(typos)} |->
          IF has_key(typos, key) THEN get(typos, key, key)
          ELSE visit[order][
                   CHOOSE i \in 1..Len(visit[order]) :
                       /\ key \in blade_keys[visit[order][i]]
                       /\ \A j \in (i + 1)..Len(visit[order]) :
                              key \notin blade_keys[visit[order][j]]]]

BLADE_NORMALIZATION_listed == build_normalization("listed")

BLADE_NORMALIZATION_reversed == build_normalization("reversed")

\* The module global BLADE_NORMALIZATION of this build.
BLADE_NORMALIZATION ==
    IF set_order = "listed" THEN BLADE_NORMALIZATION_listed
    ELSE BLADE_NORMALIZATION_reversed

\* re.sub(r"([a-z])([A-Z])", r"\1 \2", s), scraper.py line 189: a space
\* between a lowercase letter and the uppercase letter that follows it.
RECURSIVE camel_split_of(_)
camel_split_of(s) ==
    IF Len(s) < 2 THEN s
    ELSE IF /\ Head(s) \in DOMAIN uppercase_of
            /\ Head(Tail(s)) \in DOMAIN lowercase_of
         THEN Head(s) \o " " \o camel_split_of(Tail(s))
         ELSE Head(s) \o camel_split_of(Tail(s))

\* normalize_blade, scraper.py line 159-209, in a process whose module
\* global BLADE_NORMALIZATION is table.
normalize_blade_with(table, blade) ==
    LET stripped == strip(lstrip(strip(blade), {"-"}))
        key == replace_spaces(lower(stripped))
        key_with_space == lower(stripped)
        words == split(stripped)
        swapped_key == lower(words[2] \o words[1])
        camel_split == camel_split_of(stripped)
        camel_key == replace_spaces(lower(camel_split))
        camel_words == split(camel_split)
        swapped_camel == lower(camel_words[2] \o camel_words[1])
    IN IF key \in DOMAIN table
       THEN table[key]
       ELSE IF key_with_space \in DOMAIN table
       THEN table[key_with_space]
       ELSE IF Len(words) = 2 /\ swapped_key \in DOMAIN table
       THEN table[swapped_key]
       ELSE IF camel_key \in DOMAIN table
       THEN table[camel_key]
       ELSE IF /\ Len(camel_words) = 2
               /\ swapped_camel \in DOMAIN table
       THEN table[swapped_camel]
       ELSE IF contains(camel_split, " ") THEN title(camel_split)
       ELSE IF contains(stripped, " ") THEN title(stripped)
       ELSE stripped

\* normalize_blade in this process.
normalize_blade(blade) == normalize_blade_with(BLADE_NORMALIZATION, blade)

\* scraper.py line 217-226.
KNOWN_ASSISTS == {
    "Jaggy", "Slash", "Wheel", "Bumper", "Heavy", "Assault", "Rush", "Low" }

\* scraper.py line 229-245: <<abbreviation, full name>>.
ASSIST_ABBREVIATIONS == <<
    <<"W", "Wheel">>, <<"H", "Heavy">>, <<"S", "Slash">>, <<"J", "Jaggy">>,
    <<"K", "Kick">>, <<"Z", "Zap">>, <<"RA", "Rush Assault">>,
    <<"LO", "Low">>, <<"UN", "Unite">>, <<"TP", "Taper">>,
    <<"BS", "Bumper Slash">>, <<"UF", "Upper Flat">>, <<"GR", "Gear Rush">>,
    <<"WB", "Wheel Bumper">>, <<"V", "Vanguard">> >>

\* scraper.py line 271-342: <<abbreviation, full name>>.
BIT_ABBREVIATIONS == <<
    <<"B", "Ball">>, <<"F", "Flat">>, <<"N", "Needle">>, <<"P", "Point">>,
    <<"T", "Taper">>, <<"S", "Spike">>, <<"O", "Orb">>, <<"D", "Dot">>,
    <<"A", "Accel">>, <<"R", "Rush">>, <<"H", "Hexa">>, <<"C", "Cyclone">>,
    <<"U", "Unite">>, <<"L", "Level">>, <<"E", "Elevate">>, <<"G", "Glide">>,
    <<"Q", "Quake">>, <<"K", "Kick">>, <<"V", "Vanguard">>,
    <<"HN", "High Needle">>, <<"LF", "Low Flat">>, <<"LR", "Low Rush">>,
    <<"LN", "Low Needle">>, <<"GF", "GearFlat">>, <<"GB", "GearBall">>,
    <<"GN", "GearNeedle">>, <<"GP", "GearPoint">>, <<"MN", "Metal Needle">>,
    <<"HT", "High Taper">>, <<"HA", "High Accel">>, <<"DB", "Disc Ball">>,
    <<"HS", "High Sword">>, <<"SN", "Spiral Needle">>, <<"Lv", "Level">>,
    <<"El", "Elevate">>, <<"Un", "Unite">>, <<"Br", "Brake">>,
    <<"Bd", "Bound">>, <<"Gl", "Glide">>, <<"Hex", "Hexa">>,
    <<"Level", "Level">>, <<"Elevate", "Elevate">>, <<"Ball", "Ball">>,
    <<"Flat", "Flat">>, <<"Needle", "Needle">>, <<"Point", "Point">>,
    <<"Taper", "Taper">>, <<"Rush", "Rush">>, <<"Unite", "Unite">>,
    <<"Accel", "Accel">>, <<"GearFlat", "GearFlat">>,
    <<"GearBall", "GearBall">>, <<"High Needle", "High Needle">>,
    <<"Low Flat", "Low Flat">>, <<"Low Rush", "Low Rush">>,
    <<"LowFlat", "Low Flat">>, <<"LowRush", "Low Rush">>,
    <<"LowNeedle", "Low Needle">>, <<"HighNeedle", "High Needle">>,
    <<"HighTaper", "High Taper">>, <<"HighAccel", "High Accel">>,
    <<"DiscBall", "Disc Ball">>, <<"MetalNeedle", "Metal Needle">>,
    <<"Kick", "Kick">>, <<"Vanguard", "Vanguard">> >>

\* KNOWN_ASSISTS_LOWER, scraper.py line 268: the assist of each lowercase
\* assist name.
KNOWN_ASSISTS_LOWER ==
    [k \in {lower(a) : a \in KNOWN_ASSISTS} |->
        CHOOSE a \in KNOWN_ASSISTS : lower(a) = k]

\* expand_bit, scraper.py line 377-380.
expand_bit(bit) == get(BIT_ABBREVIATIONS, strip(bit), strip(bit))

\* A value of dataclass Combo, scraper.py line 345-353.
Combo(blade, ratchet, bit, assist, lock_chip, stage) ==
    [blade |-> blade, ratchet |-> ratchet, bit |-> bit, assist |-> assist,
     lock_chip |-> lock_chip, stage |-> stage]

\* A variant of is_assist that takes every last word for an assist.
is_assist_any(last_word) == TRUE

\* The test of scraper.py line 404-410.
is_assist(last_word) ==
    \/ has_key(ASSIST_ABBREVIATIONS, last_word)
    \/ lower(last_word) \in DOMAIN KNOWN_ASSISTS_LOWER
    \/ (Len(last_word) <= 2 /\ isupper(last_word))

\* split_blade_assist, scraper.py line 383-428: (blade, assist).
split_blade_assist_with(table, blade_text) ==
    LET text == strip(blade_text)
        words == split(text)
        n == Len(words)
        last_word == words[n]
        last_two == words[n - 1] \o " " \o words[n]
    IN IF n <= 1 THEN <<normalize_blade_with(table, text), NULL>>
       ELSE IF is_assist(last_word)
       THEN <<normalize_blade_with(table, join(SubSeq(words, 1, n - 1))),
              get(ASSIST_ABBREVIATIONS, last_word, last_word)>>
       ELSE IF n >= 3 /\ lower(last_two) \in {lower(a) : a \in KNOWN_ASSISTS}
       THEN <<normalize_blade_with(table, join(SubSeq(words, 1, n - 2))),
              last_two>>
       ELSE <<normalize_blade_with(table, text), NULL>>

split_blade_assist(blade_text) ==
    split_blade_assist_with(BLADE_NORMALIZATION, blade_text)

\* The index of the ")" that ends an annotation opened by the "(" at index
\* p of s, 0 if there is none: the text up to the first ")" holds one of
\* the words, in any case (the pattern \([^)]*(?:...)[^)]*\) under re.I).
annotation_end(s, p, words) ==
    LET close == find(s, p + 1, {")"})
    IN IF /\ p <= Len(s)
          /\ SubSeq(s, p, p) = "("
          /\ close <= Len(s)
          /\ \E word \in words :
                contains(lower(SubSeq(s, p + 1, close - 1)), lower(word))
       THEN close
       ELSE 0

\* The stage of scraper.py line 449-461.
stage_of(combo_str) ==
    LET starts == {p \in 1..Len(combo_str) :
                      annotation_end(combo_str, p, {"Stage", "Finals"}) # 0}
        p == CHOOSE p \in starts : \A q \in starts : p <= q
        stage_text ==
            lower(SubSeq(combo_str, p + 1,
                         annotation_end(combo_str, p,
                                        {"Stage", "Finals"}) - 1))
    IN IF starts = {} THEN NULL
       ELSE IF \/ contains(stage_text, "both")
               \/ (contains(stage_text, "first")
                   /\ contains(stage_text, "final"))
       THEN "both"
       ELSE IF contains(stage_text, "final") THEN "final"
       ELSE IF contains(stage_text, "first") THEN "first"
       ELSE IF contains(stage_text, "finals") THEN "final"
       ELSE NULL

\* re.sub of scraper.py line 464-466 from index p on: every annotation is
\* removed with the whitespace in front of it.
RECURSIVE remove_annotations(_, _)
remove_annotations(s, p) ==
    LET open == skip(s, p, {" "})
        close == annotation_end(s, open,
                                {"Stage", "Finals", "Only", "Match", "Type"})
    IN IF p > Len(s) THEN ""
       ELSE IF close # 0 THEN remove_annotations(s, close + 1)
       ELSE SubSeq(s, p, p) \o remove_annotations(s, p + 1)

\* The indices at which a match of \d{1,2}-\d{2,3} that starts at index a
\* of s can end.
ratchet_ends(s, a) ==
    LET dash == skip(s, a, chars(digits))
    IN IF /\ dash - a \in {1, 2}
          /\ dash <= Len(s)
          /\ SubSeq(s, dash, dash) = "-"
       THEN {b \in {dash + 2, dash + 3} :
                /\ b <= Len(s)
                /\ \A j \in (dash + 1)..b : isdigit(SubSeq(s, j, j))}
       ELSE {}

\* s[from..] is [A-Z][A-Za-z]* up to the end of s.
is_attached_bit(s, from) ==
    /\ from <= Len(s)
    /\ SubSeq(s, from, from) \in DOMAIN lowercase_of
    /\ \A j \in from..Len(s) : isalpha(SubSeq(s, j, j))

\* The matches of ^(.+?)\s+(\d{1,2}-\d{2,3})\s+([A-Za-z][A-Za-z\s]*)$,
\* scraper.py line 475, one for each end i of group 1.
separate_bit_matches(s) ==
    {m \in {LET a == skip(s, i + 1, {" "})
                ends == {b \in ratchet_ends(s, a) :
                            b < Len(s) /\ isspace(SubSeq(s, b + 1, b + 1))}
                b == CHOOSE b \in ends : TRUE
                c == skip(s, b + 1, {" "})
            IN IF /\ a > i + 1
                  /\ ends # {}
                  /\ c <= Len(s)
                  /\ isalpha(SubSeq(s, c, c))
                  /\ \A j \in c..Len(s) :
                        isalpha(SubSeq(s, j, j)) \/ isspace(SubSeq(s, j, j))
               THEN [i |-> i, blade_part |-> SubSeq(s, 1, i),
                     potential_assist |-> NULL,
                     ratchet |-> SubSeq(s, a, b),
                     bit |-> SubSeq(s, c, Len(s))]
               ELSE [i |-> 0]
            : i \in 1..Len(s)} : m.i # 0}

\* The matches of ^(.+?)\s+(\d{1,2}-\d{2,3})([A-Z][A-Za-z]*)$, scraper.py
\* line 493.
attached_bit_matches(s) ==
    {m \in {LET a == skip(s, i + 1, {" "})
                ends == {b \in ratchet_ends(s, a) : is_attached_bit(s, b + 1)}
                b == CHOOSE b \in ends : TRUE
            IN IF a > i + 1 /\ ends # {}
               THEN [i |-> i, blade_part |-> SubSeq(s, 1, i),
                     potential_assist |-> NULL,
                     ratchet |-> SubSeq(s, a, b),
                     bit |-> SubSeq(s, b + 1, Len(s))]
               ELSE [i |-> 0]
            : i \in 1..Len(s)} : m.i # 0}

\* The matches of ^(.+?)\s+([A-Za-z]+)(\d{1,2}-\d{2,3})([A-Z][A-Za-z]*)$,
\* scraper.py line 512.
glued_assist_matches(s) ==
    {m \in {LET a == skip(s, i + 1, {" "})
                e == skip(s, a, chars(ascii_uppercase)
                                \cup chars(ascii_lowercase))
                ends == {b \in ratchet_ends(s, e) : is_attached_bit(s, b + 1)}
                b == CHOOSE b \in ends : TRUE
            IN IF a > i + 1 /\ e > a /\ ends # {}
               THEN [i |-> i, blade_part |-> SubSeq(s, 1, i),
                     potential_assist |-> SubSeq(s, a, e - 1),
                     ratchet |-> SubSeq(s, e, b),
                     bit |-> SubSeq(s, b + 1, Len(s))]
               ELSE [i |-> 0]
            : i \in 1..Len(s)} : m.i # 0}

\* The match re.match returns: group 1 is lazy, so the shortest one.
first_match(matches) == CHOOSE m \in matches : \A o \in matches : m.i <= o.i

\* combo_str as parse_combo matches it, scraper.py line 444-469: without
\* leading dashes and bullets and without annotations ("" if nothing is
\* left).  The bullet of line 444 is not a character of the alphabet.
cleaned(combo_str) ==
    LET unbulleted == strip(lstrip(strip(combo_str), {"-", "*"}))
    IN IF unbulleted = "" THEN ""
       ELSE strip(remove_annotations(unbulleted, 1))

\* The strategy of parse_combo that applies to the cleaned text and the
\* groups it matched, scraper.py line 475, 493 and 512.
matched(s) ==
    IF separate_bit_matches(s) # {}
    THEN [strategy |-> 1, groups |-> first_match(separate_bit_matches(s))]
    ELSE IF attached_bit_matches(s) # {}
    THEN [strategy |-> 2, groups |-> first_match(attached_bit_matches(s))]
    ELSE IF glued_assist_matches(s) # {}
    THEN [strategy |-> 3, groups |-> first_match(glued_assist_matches(s))]
    ELSE [strategy |-> 0]

\* A variant of the test of line 520 that takes every token.
is_known_assist_any(potential_assist) == TRUE

\* The test of scraper.py line 520.
is_known_assist(potential_assist) ==
    \/ has_key(ASSIST_ABBREVIATIONS, potential_assist)
    \/ lower(potential_assist) \in DOMAIN KNOWN_ASSISTS_LOWER

\* (blade, assist) as parse_combo has them before it calls parse_cx_blade,
\* scraper.py line 480, 498 and 521-522; m is the match.
blade_and_assist_with(table, m) ==
    IF m.strategy \in {1, 2}
    THEN split_blade_assist_with(table, strip(m.groups.blade_part))
    ELSE <<normalize_blade_with(table, strip(m.groups.blade_part)),
           get(ASSIST_ABBREVIATIONS, strip(m.groups.potential_assist),
               strip(m.groups.potential_assist))>>

blade_and_assist(m) == blade_and_assist_with(BLADE_NORMALIZATION, m)

\* parse_combo, scraper.py line 431-534: <<combo>>, or None.
parse_combo_with(table, combo_str) ==
    LET unbulleted == strip(lstrip(strip(combo_str), {"-", "*"}))
        stage == stage_of(unbulleted)
        s == cleaned(combo_str)
        m == matched(s)
        parsed == parse_cx_blade(blade_and_assist_with(table, m)[1])
    IN IF s = "" \/ m.strategy = 0 THEN None
       ELSE IF m.strategy = 3
               /\ ~is_known_assist(strip(m.groups.potential_assist))
       THEN None
       ELSE <<Combo(parsed[2], strip(m.groups.ratchet),
                    expand_bit(m.groups.bit),
                    blade_and_assist_with(table, m)[2],
                    parsed[1], stage)>>

parse_combo(combo_str) == parse_combo_with(BLADE_NORMALIZATION, combo_str)

(***************************************************************************)
(* Part 4, continued.  The calls of the parsing functions                  *)
(***************************************************************************)

\* Longest raw string over Alphabet that is drawn.
MaxLen == 4

\* A lowercase letter, an uppercase letter, the space and the dash.
Alphabet == {"a", "B", " ", "-"}

\* The strings over Alphabet of length at most n.
RECURSIVE strings(_)
strings(n) ==
    IF n = 0 THEN {""}
    ELSE strings(n - 1)
         \cup {c \o s : c \in Alphabet, s \in {t \in strings(n - 1) : Len(t) = n - 1}}

\* The names of the CX vocabulary: every key of CX_BLADE_COMPONENTS, and for
\* every (lock_chip, main_blade) of it the two words in both orders, and
\* their lowercase concatenation in both orders.
CXTexts ==
    UNION {LET lock_chip == CX_BLADE_COMPONENTS[k][2]
               main_blade == CX_BLADE_COMPONENTS[k][3]
           IN {CX_BLADE_COMPONENTS[k][1],
               lock_chip \o " " \o main_blade,
               main_blade \o " " \o lock_chip,
               lower(lock_chip) \o lower(main_blade),
               lower(main_blade) \o lower(lock_chip)}
           : k \in 1..Len(CX_BLADE_COMPONENTS)}

\* The names of CANONICAL_BLADES as listed, without space, in lowercase, and
\* with the two words swapped.
CanonicalTexts ==
    UNION {LET blade == CANONICAL_BLADES_listed[k]
               words == split(blade)
           IN {blade, replace_spaces(blade), lower(blade),
               words[2] \o " " \o words[1], words[2] \o words[1]}
           : k \in 1..Len(CANONICAL_BLADES_listed)}

\* Two words of which each is a CX main blade, a lock chip or another word.
TwoWordTexts ==
    LET words == CX_MAIN_BLADES \cup {"Wizard", "Pegasus", "Rod", "might"}
    IN {a \o " " \o b : a \in words, b \in words}

\* Blade parts of combo strings: CX names with and without a variant suffix
\* or an assist, plain names, glued and swapped names.
BladeParts ==
    {"Valkyrie Blast W", "Valkyrie Blast", "Perseus Blast W", "Sol Blast J",
     "FoxBlast", "Fox Blast", "Blast Pegasus", "Pegasus Blast Jaggy",
     "Blast", "Might Blast", "Emperor Blast", "Wizard Rod", "Courage Dran S",
     "DranSword", "Wyvern Hover", "Shark Scale Low Rush", "Cobalt Dragoon XY",
     "- Hells Scythe", "Unicorn Sting", "Golem Rock W"}

\* What follows the blade part: the ratchet and the bit, apart, attached,
\* with a token glued in front of the ratchet, with an annotation, or
\* malformed.
ComboTails ==
    {" 9-60 Free Ball", " 3-60F", " 1-60 Hexa (Both Stages)",
     " Wheel9-60Hexa", " W9-60H", " Xyz9-60Hexa", " xy10-600LR",
     " 9-60", " (Finals Only) 5-70  Low Rush"}

ComboTexts == {blade_part \o tail : blade_part \in BladeParts, tail \in ComboTails}

\* The texts the parsing functions are called on.
RawTexts ==
    strings(MaxLen) \cup CXTexts \cup CanonicalTexts \cup TwoWordTexts
    \cup BladeParts \cup ComboTexts

\* What a call leaves alone.
call_frame ==
    /\ UNCHANGED <<set_order, raw_text>>
    /\ UNCHANGED <<vars_lock, vars_store, vars_norm, vars_ingest, vars_api>>

\* parse_cx_blade(raw_text)
run_parse_cx_blade ==
    /\ applied' = "parse_cx_blade"
    /\ returned' = parse_cx_blade(raw_text)
    /\ call_frame

\* is_invalid_two_main_blades(raw_text)
run_is_invalid_two_main_blades ==
    /\ applied' = "is_invalid_two_main_blades"
    /\ returned' = is_invalid_two_main_blades(raw_text)
    /\ call_frame

\* validate_and_fix_blade(raw_text)
run_validate_and_fix_blade ==
    /\ applied' = "validate_and_fix_blade"
    /\ returned' = validate_and_fix_blade(raw_text)
    /\ call_frame

\* normalize_blade(raw_text)
run_normalize_blade ==
    /\ applied' = "normalize_blade"
    /\ returned' = normalize_blade(raw_text)
    /\ call_frame

\* parse_combo(raw_text)
run_parse_combo ==
    /\ applied' = "parse_combo"
    /\ returned' = parse_combo(raw_text)
    /\ call_frame

\* Another process imports scraper.py: CANONICAL_BLADES (scraper.py line
\* 48-132) is a set of str, which the loop of line 137 visits in an order
\* that depends on the hash seed of the process.  The new process has made
\* no call yet.
import_scraper ==
    /\ set_order' \in SetOrders
    /\ applied' = "none"
    /\ returned' = None
    /\ UNCHANGED raw_text
    /\ UNCHANGED <<vars_lock, vars_store, vars_norm, vars_ingest, vars_api>>

\* A build of the scraper, a text, and no call made yet.
InitParse ==
    /\ InitLock
    /\ InitStoreEmpty
    /\ IngestIdle
    /\ set_order \in SetOrders
    /\ raw_text \in RawTexts
    /\ applied = "none"
    /\ returned = None
    /\ ApiIdle

NextParse ==
    \/ run_parse_cx_blade
    \/ run_is_invalid_two_main_blades
    \/ run_validate_and_fix_blade
    \/ run_normalize_blade
    \/ run_parse_combo
    \/ import_scraper

\* Any sequence of calls of the parsing functions on one text, by one
\* process after the other.
SpecParse == InitParse /\ [][NextParse]_vars

(***************************************************************************)
(* Part 5.  The API server: run_scrape and its background thread           *)
(*                                                                         *)
(* The server is an http.server.HTTPServer: serve_forever handles one      *)
(* request after the other in one thread, so one handler is active at a    *)
(* time, while the threads run_scrape has started proceed beside it.       *)
(* Every assignment to the shared dict scrape_status is a step.  A value   *)
(* that may be None is None or <<value>>.                                  *)
(***************************************************************************)

\* Most scrape threads one server starts.
MaxScrapes == 2

Threads == 1 .. MaxScrapes

\* The two servers: src/docker/api_server.py and
\* src/scripts/api_server_standalone.py.
ApiServers == {"docker", "standalone"}

\* Values of the sources argument of a /scrape request.
SourceLists == {None, <<"jp">>}

\* Bodies of a valid /upload/wbo request.
Uploads == { data \in Datasets : data.exists }

\* Positions of a thread between its start and the assignment
\* scrape_status["running"] = False.
Scraping == {"subprocess", "record", "copy", "except", "finally"}

\* A test of the flag that never finds a scrape in progress.
already_in_progress_never(status) == FALSE

\* `if scrape_status["running"]:`, api_server.py line 41.
already_in_progress(status) == status.running

\* A finally clause that leaves the flag as it is.
finally_running_kept(status) == status

\* `scrape_status["running"] = False`, api_server.py line 74.
finally_running(status) == [status EXCEPT !.running = FALSE]

\* The JSON the handler sends after run_scrape returned (started, message):
\* api_server.py line 128 and 178 for /scrape, line 160-165 for /upload/wbo.
send_json(req, started, message, page_count) ==
    IF req.path = "/upload/wbo"
    THEN [status |-> 200, success |-> TRUE, pages_received |-> page_count,
          scrape_started |-> started,
          message |-> <<"Received ", page_count,
                        " pages, processing started">>]
    ELSE [status |-> 200, started |-> started, message |-> message]

\* What the handler's steps leave alone.
handler_frame ==
    /\ UNCHANGED <<server, thread_sources, thread_outcome>>
    /\ UNCHANGED <<vars_lock, vars_store, vars_norm, vars_parse>>
    /\ UNCHANGED <<seq_tournaments, seq_placements, seq_burn, now,
                   last_call, result, raised, scraped, calls>>

\* GET /scrape?sources=..., api_server.py line 121-127: up to the call of
\* run_scrape.
do_GET_scrape ==
    /\ handler_pc = "idle"
    /\ \E t \in Threads : thread_pc[t] = "unborn"
    /\ \E sources \in SourceLists :
          request' = [method |-> "GET", path |-> "/scrape",
                      sources |-> sources]
    /\ handler_pc' = "check"
    /\ UNCHANGED <<scrape_status, started_message, response, thread_pc,
                   pages_data>>
    /\ handler_frame

\* POST /scrape, api_server.py line 172-181: up to the call of run_scrape;
\* a body that is not JSON calls run_scrape() with sources None.
do_POST_scrape ==
    /\ handler_pc = "idle"
    /\ \E t \in Threads : thread_pc[t] = "unborn"
    /\ \E sources \in SourceLists :
          request' = [method |-> "POST", path |-> "/scrape",
                      sources |-> sources]
    /\ handler_pc' = "check"
    /\ UNCHANGED <<scrape_status, started_message, response, thread_pc,
                   pages_data>>
    /\ handler_frame

\* POST /upload/wbo, api_server.py line 140-158: a body that is not a dict
\* is answered with 400; a dict is written to wbo_pages.json and
\* run_scrape(["wbo"]) is called.
do_POST_upload_wbo ==
    /\ handler_pc = "idle"
    /\ \E t \in Threads : thread_pc[t] = "unborn"
    /\ request' = [method |-> "POST", path |-> "/upload/wbo",
                   sources |-> <<"wbo">>]
    /\ \/ /\ response' = [status |-> 400, error |-> "Invalid data format"]
          /\ handler_pc' = "idle"
          /\ UNCHANGED pages_data
       \/ /\ pages_data' \in Uploads
          /\ handler_pc' = "check"
          /\ UNCHANGED response
    /\ UNCHANGED <<scrape_status, started_message, thread_pc>>
    /\ handler_frame

\* run_scrape, api_server.py line 41-42: the test of the flag.
api_run_scrape_check ==
    /\ handler_pc = "check"
    /\ IF already_in_progress(scrape_status)
       THEN /\ started_message' = <<FALSE, "Scrape already in progress">>
            /\ response' = send_json(request, FALSE,
                                     "Scrape already in progress",
                                     Len(pages_data.pages))
            /\ handler_pc' = "idle"
       ELSE /\ handler_pc' = IF server = "standalone" THEN "probe"
                             ELSE "set_running"
            /\ UNCHANGED <<started_message, response>>
    /\ UNCHANGED <<scrape_status, request, thread_pc, pages_data>>
    /\ handler_frame

\* run_scrape, api_server_standalone.py line 61-62: is_database_locked()
\* answers for the processes that may hold the lock file.
api_run_scrape_probe ==
    /\ handler_pc = "probe"
    /\ \E locked \in BOOLEAN :
          IF locked
          THEN /\ started_message' =
                     <<FALSE, "Database is locked by another process">>
               /\ response' = send_json(request, FALSE,
                                  "Database is locked by another process",
                                  Len(pages_data.pages))
               /\ handler_pc' = "idle"
          ELSE /\ handler_pc' = "set_running"
               /\ UNCHANGED <<started_message, response>>
    /\ UNCHANGED <<scrape_status, request, thread_pc, pages_data>>
    /\ handler_frame

\* run_scrape, api_server.py line 44.
api_run_scrape_set_running ==
    /\ handler_pc = "set_running"
    /\ scrape_status' = [scrape_status EXCEPT !.running = TRUE]
    /\ handler_pc' = "clear_error"
    /\ UNCHANGED <<request, started_message, response, thread_pc, pages_data>>
    /\ handler_frame

\* run_scrape, api_server.py line 45.
api_run_scrape_clear_error ==
    /\ handler_pc = "clear_error"
    /\ scrape_status' = [scrape_status EXCEPT !.last_error = None]
    /\ handler_pc' = "start"
    /\ UNCHANGED <<request, started_message, response, thread_pc, pages_data>>
    /\ handler_frame

\* run_scrape, api_server.py line 77-79: the thread is started and the
\* handler answers.
api_run_scrape_start ==
    /\ handler_pc = "start"
    /\ LET t == CHOOSE u \in Threads :
                   /\ thread_pc[u] = "unborn"
                   /\ \A v \in Threads : thread_pc[v] = "unborn" => u <= v
       IN /\ thread_pc' = [thread_pc EXCEPT ![t] = "subprocess"]
          /\ thread_sources' = [thread_sources EXCEPT ![t] = request.sources]
    /\ started_message' = <<TRUE, "Scrape started">>
    /\ response' = send_json(request, TRUE, "Scrape started",
                             Len(pages_data.pages))
    /\ handler_pc' = "idle"
    /\ UNCHANGED <<server, thread_outcome, scrape_status, request, pages_data>>
    /\ UNCHANGED <<vars_lock, vars_store, vars_norm, vars_parse>>
    /\ UNCHANGED <<seq_tournaments, seq_placements, seq_burn, now,
                   last_call, result, raised, scraped, calls>>

\* What the steps of a scrape thread leave alone.
thread_frame ==
    /\ UNCHANGED <<server, handler_pc, request, started_message, response,
                   thread_sources>>
    /\ UNCHANGED <<vars_lock, vars_store, vars_norm, vars_ingest, vars_parse>>

\* _scrape, api_server.py line 50-59: subprocess.run returns with exit
\* status 0 or another, raises TimeoutExpired after 600 seconds, or raises
\* another exception.
scrape_subprocess(t) ==
    /\ thread_pc[t] = "subprocess"
    /\ \E ended \in {"ok", "nonzero", "timeout", "raised"} :
          /\ thread_outcome' = [thread_outcome EXCEPT ![t] = ended]
          /\ thread_pc' = [thread_pc EXCEPT ![t] =
                              IF ended \in {"ok", "nonzero"} THEN "record"
                              ELSE "except"]
    /\ UNCHANGED scrape_status
    /\ thread_frame

\* _scrape, api_server.py line 62-64 and api_server_standalone.py line
\* 84-92: last_result and, on a non-zero exit, last_error.  The docker
\* server copies the database after either; the standalone server only
\* after exit status 0.
scrape_record(t) ==
    /\ thread_pc[t] = "record"
    /\ scrape_status' =
          IF thread_outcome[t] = "ok"
          THEN [scrape_status EXCEPT !.last_result = <<TRUE>>]
          ELSE [scrape_status EXCEPT !.last_result = <<FALSE>>,
                                     !.last_error = <<"stderr">>]
    /\ thread_pc' = [thread_pc EXCEPT ![t] =
                        IF server = "docker" \/ thread_outcome[t] = "ok"
                        THEN "copy" ELSE "finally"]
    /\ UNCHANGED thread_outcome
    /\ thread_frame

\* _scrape, api_server.py line 66-68 and copy_db_to_dist,
\* api_server_standalone.py line 46-51: the database file is copied, is
\* not there, or the copy raises.
scrape_copy(t) ==
    /\ thread_pc[t] = "copy"
    /\ \/ /\ thread_pc' = [thread_pc EXCEPT ![t] = "finally"]
          /\ UNCHANGED thread_outcome
       \/ /\ thread_pc' = [thread_pc EXCEPT ![t] = "except"]
          /\ thread_outcome' = [thread_outcome EXCEPT ![t] = "copy_raised"]
    /\ UNCHANGED scrape_status
    /\ thread_frame

\* _scrape, api_server.py line 70-72 and api_server_standalone.py line
\* 94-100: the except clauses.
scrape_except(t) ==
    /\ thread_pc[t] = "except"
    /\ scrape_status' =
          [scrape_status EXCEPT
              !.last_result = <<FALSE>>,
              !.last_error =
                  IF server = "standalone" /\ thread_outcome[t] = "timeout"
                  THEN <<"Scrape timed out after 10 minutes">>
                  ELSE <<"str(e)">>]
    /\ thread_pc' = [thread_pc EXCEPT ![t] = "finally"]
    /\ UNCHANGED thread_outcome
    /\ thread_frame

\* _scrape, api_server.py line 73-74: the first statement of finally.
scrape_finally_running(t) ==
    /\ thread_pc[t] = "finally"
    /\ scrape_status' = finally_running(scrape_status)
    /\ thread_pc' = [thread_pc EXCEPT ![t] = "last_run"]
    /\ UNCHANGED thread_outcome
    /\ thread_frame

\* _scrape, api_server.py line 75: the second statement of finally, after
\* which the thread ends.  last_run is the reading of the clock, which
\* stands still here.
scrape_finally_last_run(t) ==
    /\ thread_pc[t] = "last_run"
    /\ scrape_status' = [scrape_status EXCEPT !.last_run = <<now>>]
    /\ thread_pc' = [thread_pc EXCEPT ![t] = "dead"]
    /\ UNCHANGED thread_outcome
    /\ thread_frame

\* A server just started, api_server.py line 29-34 and 191-201.
InitApi ==
    /\ InitLock
    /\ InitStoreEmpty
    /\ IngestIdle
    /\ ParseIdle
    /\ server \in ApiServers
    /\ scrape_status = [running |-> FALSE, last_run |-> None,
                        last_result |-> None, last_error |-> None]
    /\ handler_pc = "idle"
    /\ request = None
    /\ started_message = None
    /\ response = None
    /\ thread_pc = [t \in Threads |-> "unborn"]
    /\ thread_sources = [t \in Threads |-> None]
    /\ thread_outcome = [t \in Threads |-> "none"]

\* The handler of the request being served takes its next step.
NextHandler ==
    \/ api_run_scrape_check
    \/ api_run_scrape_probe
    \/ api_run_scrape_set_running
    \/ api_run_scrape_clear_error
    \/ api_run_scrape_start

\* The scrape thread t takes its next step.
NextThread(t) ==
    \/ scrape_subprocess(t)
    \/ scrape_record(t)
    \/ scrape_copy(t)
    \/ scrape_except(t)
    \/ scrape_finally_running(t)
    \/ scrape_finally_last_run(t)

NextApi ==
    \/ do_GET_scrape
    \/ do_POST_scrape
    \/ do_POST_upload_wbo
    \/ NextHandler
    \/ \E t \in Threads : NextThread(t)

\* Any sequence of requests to one server, its scrape threads running
\* beside the handler.
SpecApi == InitApi /\ [][NextApi]_vars

\* The same, where the handler of a request and every scrape thread keep
\* being scheduled and subprocess.run ends, by itself or at its timeout of
\* 600 seconds.  Requests need not arrive.
SpecApiFair ==
    /\ SpecApi
    /\ WF_vars(NextHandler)
    /\ \A t \in Threads : WF_vars(NextThread(t))


(***************************************************************************)
(* Claims on the lock protocol                                             *)
(***************************************************************************)

\* A run is between a successful lock acquisition and the release of the
\* lock: __enter__ has returned and neither __exit__ nor the end of the
\* process has released the lock yet.
InLockedSection(r) ==
    \/ pc[r] \in {"entered", "body", "main_finally", "exit_finally"}
    \/ pc[r] = "exited" /\ exc[r] = "UnboundLocalError"

\* C1: at most one refresh_all write run is ever between a successful lock
\* acquisition and its release.
C1_MutualExclusion ==
    \A r1, r2 \in Runs :
        (InLockedSection(r1) /\ InLockedSection(r2)) => r1 = r2

\* C1 witness: one run is writing under the lock while another run has
\* tried to acquire it and was turned away.
C1_Witness ==
    \E r1, r2 \in Runs :
        /\ r1 # r2
        /\ pc[r1] = "body"
        /\ pc[r2] = "enter_raised"

\* C2 (as claimed): whenever an exception leaves database_lock() on entry,
\* it is DatabaseLockError.
C2_LockedErrorIsDatabaseLockError ==
    \A r \in Runs : pc[r] = "enter_raised" => exc[r] = "DatabaseLockError"

(***************************************************************************)
(* Claims on normalize_data                                                *)
(***************************************************************************)

\* C3 (as claimed): the second of two successive normalize_data runs returns
\* fixed_count = 0.
C3_SecondRunFixesNothing ==
    norm_runs >= 2 => fixed_count = 0

\* C4: once normalize_data has run, a further run leaves the placements
\* table as it is (one pass reaches the fixed point).
C4_SecondRunKeepsTable ==
    [][norm_runs >= 1 => placements' = placements]_vars

\* C4 witness: two runs were made on a table that held the chained
\* correction 'Might Blast' -> 'Emperor Might' -> 'Might', and the slot now
\* holds 'Might'.
C4_Witness ==
    /\ norm_runs = 2
    /\ \E p0 \in placements_before, p \in placements, i \in Slots :
         /\ p0.id = p.id
         /\ p0.slots[i].blade = "Might Blast"
         /\ p.slots[i].blade = "Might"

\* The columns of a placements row that normalize_data must not touch.
other_columns(p) ==
    [id |-> p.id, tournament_id |-> p.tournament_id, place |-> p.place,
     player_name |-> p.player_name, player_wbo_id |-> p.player_wbo_id,
     stage_1 |-> p.slots[1].stage, stage_2 |-> p.slots[2].stage,
     stage_3 |-> p.slots[3].stage]

\* C5: a run of normalize_data keeps the tournaments rows, the set of
\* placements rows and every column other than blade_i, bit_i, ratchet_i,
\* assist_i, lock_chip_i.
C5_RowsAndOtherColumnsKept ==
    [][/\ tournaments' = tournaments
       /\ {other_columns(p) : p \in placements'}
            = {other_columns(p) : p \in placements}
       /\ Cardinality(placements') = Cardinality(placements)]_vars

\* C5 witness: a run rewrote columns of a table of two rows, one of which
\* held a main blade name in a lock chip column.
C5_Witness ==
    /\ norm_runs >= 1
    /\ placements # placements_before
    /\ Cardinality(placements) >= 2
    /\ \E p \in placements_before, i \in Slots : p.slots[i].lock_chip \in MAIN_BLADES

\* C6 (as claimed): a slot holding a composite-table name in blade_i with
\* lock_chip_i empty holds, after normalize_data, the table's main blade in
\* blade_i and the table's lock chip in lock_chip_i.
C6_CompositeNameIsDecomposed ==
    [][\A p \in placements, i \in Slots, k \in 1..Len(CX_BLADE_COMPONENTS) :
          (p.slots[i].blade = CX_BLADE_COMPONENTS[k][1]
           /\ p.slots[i].lock_chip = NULL)
          => \E q \in placements' :
                /\ q.id = p.id
                /\ q.slots[i].blade = CX_BLADE_COMPONENTS[k][3]
                /\ q.slots[i].lock_chip = CX_BLADE_COMPONENTS[k][2]]_vars

(***************************************************************************)
(* Claims on the ingestion operations                                      *)
(***************************************************************************)

\* C7: a scrape of wbo_pages.json made after an earlier scrape of the same
\* file, with no clear in between, adds zero tournaments and leaves the row
\* counts of tournaments and placements unchanged.
C7_SecondScrapeAddsNothing ==
    [][(scraped /\ last_call'.op = "scrape" /\ calls' = calls + 1)
         => /\ result'[1] = 0
            /\ Cardinality(tournaments') = Cardinality(tournaments)
            /\ Cardinality(placements') = Cardinality(placements)]_vars

\* C8: after any sequence of insert_tournament, import_championships,
\* scrape and clear calls, no two rows of tournaments share a wbo_post_id.
C8_PostIdUnique ==
    \A r1 \in tournaments : \A r2 \in tournaments :
        r1.wbo_post_id = r2.wbo_post_id => r1 = r2

\* C8 witness: a data file was imported again with every entry skipped,
\* while championship rows and rows of another source are stored.
C8_Witness ==
    /\ last_call.op = "import_championships"
    /\ result = <<0, 0>>
    /\ \E r \in tournaments : has_prefix(r.wbo_post_id, <<"c", "h", "a", "m", "p", "_">>)
    /\ \E r \in tournaments : ~has_prefix(r.wbo_post_id, <<"c", "h", "a", "m", "p", "_">>)

\* C9: insert_tournament called with a wbo_post_id that is already stored
\* leaves tournaments and placements as they are, returns None and does not
\* raise.
C9_DuplicateIsNoOp ==
    [][(/\ last_call'.op = "insert_tournament"
        /\ calls' = calls + 1
        /\ \E r \in tournaments :
              r.wbo_post_id = last_call'.arg.wbo_post_id)
         => /\ tournaments' = tournaments
            /\ placements' = placements
            /\ result' = None
            /\ raised' = "none"]_vars

\* C9 witness: a dated tournament with placements was submitted under a
\* stored wbo_post_id with another name, and was skipped.
C9_Witness ==
    /\ last_call.op = "insert_tournament"
    /\ last_call.arg.date # None
    /\ last_call.arg.placements # <<>>
    /\ result = None
    /\ raised = "none"
    /\ \E r \in tournaments :
          /\ r.wbo_post_id = last_call.arg.wbo_post_id
          /\ r.name # last_call.arg.name

\* C10: insert_tournament called with a tournament whose date is None
\* leaves tournaments and placements as they are, returns None and does not
\* raise, whatever the other fields.
C10_DatelessIsDropped ==
    [][(/\ last_call'.op = "insert_tournament"
        /\ calls' = calls + 1
        /\ last_call'.arg.date = None)
         => /\ tournaments' = tournaments
            /\ placements' = placements
            /\ result' = None
            /\ raised' = "none"]_vars

\* C10 witness: a tournament without date and name, with a new
\* wbo_post_id and with placements, was submitted to a store that holds
\* rows, and was dropped.
C10_Witness ==
    /\ last_call.op = "insert_tournament"
    /\ last_call.arg.date = None
    /\ last_call.arg.name = NULL
    /\ last_call.arg.placements # <<>>
    /\ \A r \in tournaments : r.wbo_post_id # last_call.arg.wbo_post_id
    /\ tournaments # {}
    /\ result = None
    /\ raised = "none"

\* C11: after any sequence of ingestion calls, every row of tournaments has
\* at least one row of placements referring to it.
C11_TournamentHasPlacements ==
    \A t \in tournaments : \E p \in placements : p.tournament_id = t.id

\* C12: insert_tournament writes at most one placements row per submitted
\* Placement that has combos, and every stored placements row has a non-null
\* blade_1, ratchet_1 and bit_1.
C12_PlacementHasCombo ==
    [][/\ \A p \in placements' : /\ p.slots[1].blade # NULL
                                 /\ p.slots[1].ratchet # NULL
                                 /\ p.slots[1].bit # NULL
       /\ (last_call'.op = "insert_tournament" /\ calls' = calls + 1)
            => Cardinality(placements' \ placements)
                 <= Cardinality({k \in DOMAIN last_call'.arg.placements :
                        last_call'.arg.placements[k].combos # <<>>})]_vars

\* C12 witness: insert_tournament stored a tournament whose only placement
\* has no combos, and wrote no placements row for it.
C12_Witness ==
    /\ last_call.op = "insert_tournament"
    /\ result # None
    /\ \A k \in DOMAIN last_call.arg.placements :
          last_call.arg.placements[k].combos = <<>>
    /\ \A p \in placements : p.tournament_id # result[1]
    /\ \E t \in tournaments : t.id = result[1]

\* C13: when a page of wbo_pages.json raises during a scrape, the
\* tournaments and placements that the pages before it inserted are stored
\* when the run ends.
C13_FailedPageKeepsEarlierWork ==
    [][(last_call'.op = "scrape" /\ calls' = calls + 1)
         => \A k \in DOMAIN pages_data.pages :
               ~pages_data.pages[k].markup
                 => LET before == scrape(WBOScraper, Store,
                                     [pages_data EXCEPT
                                        !.pages = SubSeq(@, 1, k - 1)],
                                     now).db
                    IN /\ before.tournaments \subseteq tournaments'
                       /\ before.placements \subseteq placements']_vars

\* C13 witness: a scrape of a file whose second page raises ended with the
\* tournament of the first page, added by this run, and its placements
\* stored.
C13_Witness ==
    /\ last_call.op = "scrape"
    /\ Len(pages_data.pages) >= 2
    /\ ~pages_data.pages[2].markup
    /\ result[1] >= 1
    /\ \E t \in tournaments :
          /\ t.wbo_post_id = pages_data.pages[1].posts[1].id
          /\ \E p \in placements : p.tournament_id = t.id

\* C14: a refresh_all --stats process never opens the lock file, never
\* holds the lock, never meets DatabaseLockError nor the locked-error exit,
\* connects read-only, and none of its steps changes which process holds
\* the lock or the state of any lock descriptor.
C14_StatsLeavesLockAlone ==
    [][\A r \in Runs :
         stats'[r] =>
           /\ lock_fd'[r] = "unset"
           /\ r \notin flock_held'
           /\ exc'[r] # "DatabaseLockError"
           /\ outcome'[r] # "locked_error"
           /\ conn'[r] \in {"unbound", "read_only", "closed"}
           /\ pc'[r] # pc[r] => (flock_held' = flock_held /\ lock_fd' = lock_fd)
      ]_vars

\* C14 witness: a --stats process has shown its statistics and ended
\* normally while a write run, lock acquired, was about to connect.
C14_Witness ==
    \E r, q \in Runs :
        /\ stats[r]
        /\ pc[r] = "exited"
        /\ outcome[r] = "ok"
        /\ conn[r] = "closed"
        /\ pc[q] = "entered"
        /\ q \in flock_held

(***************************************************************************)
(* Claims on the parsing functions                                         *)
(***************************************************************************)

\* C15: for every (lock_chip, main_blade) value pair of CX_BLADE_COMPONENTS,
\* parse_cx_blade returns the pair for the two names joined by a space and
\* for their lowercase concatenation.
C15_DecompositionRoundTrip ==
    applied = "parse_cx_blade" =>
       \A k \in 1..Len(CX_BLADE_COMPONENTS) :
          LET lock_chip == CX_BLADE_COMPONENTS[k][2]
              main_blade == CX_BLADE_COMPONENTS[k][3]
          IN (raw_text \in {lock_chip \o " " \o main_blade,
                            lower(lock_chip) \o lower(main_blade)})
                => returned = <<lock_chip, main_blade>>

\* parse_cx_blade has decomposed the lowercase concatenation of a pair whose
\* spaced name is not a key of the table.
C15_Witness ==
    /\ applied = "parse_cx_blade"
    /\ raw_text = "pegasusflare"
    /\ ~has_key(CX_BLADE_COMPONENTS, "Pegasus Flare")
    /\ returned = <<"Pegasus", "Flare">>

\* C16: parse_combo("Valkyrie Blast W 9-60 Free Ball") returns blade
\* "Blast", lock_chip "Valkyrie", ratchet "9-60", bit "Free Ball" and no
\* assist: the variant suffix "W" is not turned into an assist.
C16_SuffixIsNotAnAssist ==
    (applied = "parse_combo" /\ raw_text = "Valkyrie Blast W 9-60 Free Ball")
       => /\ returned # None
          /\ returned[1].blade = "Blast"
          /\ returned[1].lock_chip = "Valkyrie"
          /\ returned[1].ratchet = "9-60"
          /\ returned[1].bit = "Free Ball"
          /\ returned[1].assist = NULL

\* C17: "Might Blast" is flagged by is_invalid_two_main_blades, and
\* validate_and_fix_blade followed by parse_cx_blade maps it to lock_chip
\* "Emperor" and blade "Might"; is_invalid_two_main_blades(name) is true
\* exactly when name splits into two words that are both CX main blades (the
\* case of the letters apart), so it is false for "Wizard Rod".
C17_TwoMainBladesAreRemapped ==
    /\ applied = "is_invalid_two_main_blades" =>
          /\ returned <=>
                \E a \in CX_MAIN_BLADES, b \in CX_MAIN_BLADES :
                   /\ Len(split(raw_text)) = 2
                   /\ lower(split(raw_text)[1]) = lower(a)
                   /\ lower(split(raw_text)[2]) = lower(b)
          /\ raw_text = "Might Blast" => returned
          /\ raw_text = "Wizard Rod" => ~returned
    /\ (applied = "validate_and_fix_blade" /\ raw_text = "Might Blast") =>
          parse_cx_blade(returned) = <<"Emperor", "Might">>

\* validate_and_fix_blade has remapped the flagged name "Might Blast".
C17_Witness ==
    /\ applied = "validate_and_fix_blade"
    /\ raw_text = "Might Blast"
    /\ is_invalid_two_main_blades(raw_text)
    /\ returned = "Emperor Might"

\* C18: normalize_blade is idempotent: normalizing what normalize_blade
\* returned returns it unchanged.
C18_NormalizeIsIdempotent ==
    applied = "normalize_blade" => normalize_blade(returned) = returned

\* C19: in every Combo that parse_combo returns, lock_chip is set only if
\* parse_cx_blade decomposed the normalized part text, and then lock_chip is
\* one of CX_LOCK_CHIPS and blade one of CX_MAIN_BLADES; when the
\* decomposition fails, lock_chip is null and blade is the normalized part
\* text itself.  The same holds of parse_cx_blade on whatever text it is
\* called on.
C19_LockChipOnlyWhenDecomposed ==
    /\ (applied = "parse_combo" /\ returned # None) =>
          LET combo == returned[1]
              part == blade_and_assist(matched(cleaned(raw_text)))[1]
              decomposed == parse_cx_blade(part)[1] # NULL
          IN /\ combo.lock_chip # NULL =>
                   /\ decomposed
                   /\ combo.lock_chip \in CX_LOCK_CHIPS
                   /\ combo.blade \in CX_MAIN_BLADES
             /\ ~decomposed =>
                   /\ combo.lock_chip = NULL
                   /\ combo.blade = part
    /\ applied = "parse_cx_blade" =>
          IF returned[1] # NULL
          THEN returned[1] \in CX_LOCK_CHIPS /\ returned[2] \in CX_MAIN_BLADES
          ELSE returned[2] = raw_text

\* parse_combo has returned a Combo whose part text, normalized to "Blast
\* Emperor", was decomposed by its two words.
C19_Witness ==
    /\ applied = "parse_combo"
    /\ raw_text = "Emperor Blast 9-60 Free Ball"
    /\ blade_and_assist(matched(cleaned(raw_text)))[1] = "Blast Emperor"
    /\ returned # None
    /\ returned[1].lock_chip = "Emperor"
    /\ returned[1].blade = "Blast"

\* C20: in the third strategy of parse_combo, the token glued in front of
\* the ratchet becomes the assist only when it is a key of
\* ASSIST_ABBREVIATIONS or a known assist name; when it is not, parse_combo
\* returns None.
C20_GluedTokenMustBeKnownAssist ==
    (applied = "parse_combo" /\ matched(cleaned(raw_text)).strategy = 3) =>
       LET token == matched(cleaned(raw_text)).groups.potential_assist
           recognized ==
               \/ \E k \in 1..Len(ASSIST_ABBREVIATIONS) :
                     ASSIST_ABBREVIATIONS[k][1] = token
               \/ \E a \in KNOWN_ASSISTS : lower(a) = lower(token)
       IN /\ returned # None => recognized
          /\ ~recognized => returned = None
          /\ \A a \in KNOWN_ASSISTS :
                (returned # None /\ token = a) => returned[1].assist = a

\* parse_combo has met a glued token that is no assist and returned None.
C20_Witness ==
    /\ applied = "parse_combo"
    /\ raw_text = "FoxBlast Xyz9-60Hexa"
    /\ matched(cleaned(raw_text)).strategy = 3
    /\ matched(cleaned(raw_text)).groups.potential_assist = "Xyz"
    /\ returned = None

\* The lowercase concatenations of step 5 for one (lock chip, main blade)
\* pair, db.py line 258-264.
concat_pattern(pair) == {pair[1] \o pair[2], pair[2] \o pair[1]}

\* No concatenation of a pair is the start of a concatenation of another
\* pair: no name at all starts with the concatenations of two pairs.
no_pattern_starts_another ==
    \A p, q \in (DOMAIN _CX_LOCK_CHIPS_LOWER)
                 \X (DOMAIN _CX_MAIN_BLADES_LOWER) :
        p # q =>
           \A a \in concat_pattern(p), b \in concat_pattern(q) :
              ~startswith(b, a)

\* C21 (first part): the decomposer does not depend on the order in which
\* the lock-chip and main-blade dicts are visited: no name starts with the
\* concatenations of two different pairs, and the name that parse_cx_blade
\* was called on matches at most one pair.
C21_DecomposerMatchesOnePair ==
    /\ no_pattern_starts_another
    /\ applied = "parse_cx_blade" =>
          /\ Cardinality(concat_patterns(
                 replace_spaces(lower(strip(raw_text))))) <= 1
          /\ returned = parse_cx_blade(raw_text)

\* A glued name that only the concatenation step decomposes.
C21_Witness ==
    /\ applied = "parse_cx_blade"
    /\ raw_text = "blastpegasus"
    /\ concat_patterns(raw_text) = {<<"Pegasus", "Blast">>}
    /\ returned = <<"Pegasus", "Blast">>

\* C21: repeated parse_combo calls on the same line agree across processes:
\* what this process returned for the line is what a process returns for it
\* whatever the order in which it visited CANONICAL_BLADES.
C21_ParseComboAgreesAcrossProcesses ==
    applied = "parse_combo" =>
       \A table \in {BLADE_NORMALIZATION_listed,
                     BLADE_NORMALIZATION_reversed} :
          returned = parse_combo_with(table, raw_text)

\* C23: every name of CANONICAL_BLADES is a fixed point of normalize_blade,
\* in whatever order the set was visited when BLADE_NORMALIZATION was built.
C23_CanonicalNamesAreFixedPoints ==
    (/\ applied = "normalize_blade"
     /\ \E k \in 1..Len(CANONICAL_BLADES_listed) :
           raw_text = CANONICAL_BLADES_listed[k])
       => returned = raw_text

\* The token that parse_combo takes the assist from: the last word of the
\* part text in the first two strategies, the glued token in the third.
assist_token(combo_str) ==
    LET m == matched(cleaned(combo_str))
        words == split(strip(m.groups.blade_part))
    IN IF m.strategy = 3 THEN strip(m.groups.potential_assist)
       ELSE words[Len(words)]

\* A key of ASSIST_ABBREVIATIONS, or a name of KNOWN_ASSISTS in any case of
\* the letters.
is_assist_name(token) ==
    \/ \E k \in 1..Len(ASSIST_ABBREVIATIONS) :
          ASSIST_ABBREVIATIONS[k][1] = token
    \/ \E a \in KNOWN_ASSISTS : lower(a) = lower(token)

C22_SlotKHoldsComboK ==
    (last_call.op = "insert_tournament" /\ result # None) =>
       \A p \in placements :
          p.tournament_id = result[1] =>
             \E k \in DOMAIN last_call.arg.placements :
                LET placement == last_call.arg.placements[k]
                    n == Len(placement.combos)
                IN /\ n >= 1
                   /\ p.place = placement.place
                   /\ p.player_name = placement.player_name
                   /\ p.player_wbo_id = placement.player_wbo_id
                   /\ \A j \in Slots :
                         p.slots[j] = IF j <= n THEN placement.combos[j]
                                      ELSE EmptySlot

\* A placement with four combos was stored: its row holds the first three,
\* in order; another row holds two combos and an empty third slot.
C22_Witness ==
    /\ last_call.op = "insert_tournament"
    /\ result # None
    /\ \E p \in placements :
          /\ p.tournament_id = result[1]
          /\ last_call.arg.placements = FourCombos
          /\ p.slots = <<ComboA, ComboB, ComboB>>

\* The source that a wbo_post_id belongs to: the Japanese scraper writes
\* ids that start with okuyama_, the German one ids that start with blg_,
\* the championship import ids that start with champ_, and the WBO scraper
\* the post ids of the forum, which have none of these prefixes.
source_of(wbo_post_id) ==
    IF wbo_post_id = NULL_ID THEN "none"
    ELSE IF startswith(wbo_post_id, JPScraper.source_prefix) THEN "Japan"
    ELSE IF startswith(wbo_post_id, DEScraper.source_prefix) THEN "Germany"
    ELSE IF startswith(wbo_post_id, <<"c", "h", "a", "m", "p", "_">>)
    THEN "champ"
    ELSE "WBO"

\* C25: clear_source_data of a scraper deletes only tournaments of its own
\* source and their placements: the tournaments of every other source,
\* those of the championship import included, and their placements are in
\* the store after the call as they were before it.
C25_ClearLeavesOtherSources ==
    [][(last_call'.op = "clear_source_data" /\ calls' = calls + 1) =>
          \A r \in tournaments :
             source_of(r.wbo_post_id) # last_call'.self =>
                /\ r \in tournaments'
                /\ \A p \in placements :
                      p.tournament_id = r.id => p \in placements']_vars

\* C29: is_database_locked() does not disturb ingestion: a refresh_all run
\* is refused the lock (DatabaseLockError) only while another run holds it,
\* and a call of is_database_locked() leaves the lock held by whoever held
\* it before.
C29_ProbeDoesNotDisturbRuns ==
    [][/\ \A r \in Runs :
             (pc[r] = "flock" /\ pc'[r] = "enter_finally") =>
                \E q \in Runs \ {r} : q \in flock_held
       /\ (probe_pc # "idle" /\ probe_pc' = "idle") =>
             (Probe \notin flock_held' /\ flock_held' = flock_held)]_vars

posts_of(data) ==
    UNION { { data.pages[p].posts[k] : k \in DOMAIN data.pages[p].posts } :
            p \in DOMAIN data.pages }

\* The ids parse_post may give to the tournaments of one post: the post id,
\* or the post id, an underscore and an index.
later_id(post_id, index) == post_id \o <<"_">> \o str(index)

\* C26: parse_post returns tournaments with pairwise distinct wbo_post_id:
\* after a scrape has parsed the posts of wbo_pages.json, no two tournaments
\* returned for one post have the same id, a tournament made from the first
\* section has the post id, and a later one has post id + '_' + the number
\* of tournaments kept before it.
C26_PostIdsAreDistinct ==
    scraped =>
       \A post \in posts_of(pages_data) :
          LET parsed == wbo_parse_post(post, now)
              first_kept == post.sections # <<>>
                            /\ post.sections[1].placements # <<>>
          IN /\ \A i, j \in DOMAIN parsed :
                   i # j => parsed[i].wbo_post_id # parsed[j].wbo_post_id
             /\ \A i \in DOMAIN parsed :
                   parsed[i].wbo_post_id =
                      IF i = 1 /\ first_kept THEN post.id
                      ELSE later_id(post.id, i - 1)

\* A scrape has parsed a post whose first and third sections have no
\* placements and which yields three tournaments.
C26_Witness ==
    /\ scraped
    /\ \E post \in posts_of(pages_data) :
          /\ Len(post.sections) = 5
          /\ post.sections[1].placements = <<>>
          /\ post.sections[3].placements = <<>>
          /\ Len(wbo_parse_post(post, now)) = 3

(***************************************************************************)
(* Claims on the API server                                                *)
(***************************************************************************)

\* The threads that have been started and have not yet cleared the flag.
scraping_threads == { t \in Threads : thread_pc[t] \in Scraping }

\* C27: at most one background scrape per API server: at no time are two
\* scrape threads between their start and the clearing of the running
\* flag, the flag is set while one is, and a call of run_scrape that finds
\* the flag set returns (False, 'Scrape already in progress') and leaves
\* the threads and scrape_status as they are.
C27_AtMostOneScrape ==
    /\ [](/\ Cardinality(scraping_threads) <= 1
          /\ scraping_threads # {} => scrape_status.running)
    /\ [][(/\ handler_pc = "check"
            /\ handler_pc' # "check"
            /\ scrape_status.running) =>
             /\ started_message' = <<FALSE, "Scrape already in progress">>
             /\ handler_pc' = "idle"
             /\ thread_pc' = thread_pc
             /\ scrape_status' = scrape_status]_vars

\* A request was turned away with 'Scrape already in progress' while the
\* first scrape thread waits for its subprocess and the second thread has
\* not been started.
C27_Witness ==
    /\ thread_pc[1] = "subprocess"
    /\ thread_pc[2] = "unborn"
    /\ handler_pc = "idle"
    /\ started_message = <<FALSE, "Scrape already in progress">>
    /\ request.path = "/upload/wbo"

\* C28: the scrape status always clears: whenever the running flag is set
\* it is later cleared with last_run set; a thread whose subprocess exited
\* non-zero, timed out or raised, or whose copy raised, clears the flag
\* with last_result false; and a call of run_scrape that finds the flag
\* cleared is not turned away as already in progress.
C28_StatusAlwaysClears ==
    /\ scrape_status.running ~>
          (~scrape_status.running /\ scrape_status.last_run # None)
    /\ [][/\ \A t \in Threads :
                (/\ thread_pc[t] = "finally"
                 /\ thread_pc'[t] = "last_run"
                 /\ thread_outcome[t] # "ok") =>
                    (/\ ~scrape_status'.running
                     /\ scrape_status'.last_result = <<FALSE>>)
          /\ (/\ handler_pc = "check"
              /\ handler_pc' # "check"
              /\ ~scrape_status.running) =>
                handler_pc' \in {"probe", "set_running"}]_vars

\* The first scrape ran (the second thread has not been started), its
\* subprocess timed out, and its thread has ended with the flag cleared,
\* last_run set and last_result false.
C28_Witness ==
    /\ thread_outcome[1] = "timeout"
    /\ thread_pc[1] = "dead"
    /\ thread_pc[2] = "unborn"
    /\ ~scrape_status.running
    /\ scrape_status.last_run # None
    /\ scrape_status.last_result = <<FALSE>>

====
